---- MODULE Spec2Model ----
(***************************************************************************)
(* okladiy scraper: the entry point main() (scraper/index.js), which runs  *)
(* every registered venue scraper under Promise.allSettled, merges the     *)
(* results, deduplicates, applies the image overrides, sorts by date and   *)
(* writes docs/shows.json; and the helpers of scraper/utils.js it uses.    *)
(*                                                                         *)
(* JavaScript strings are modelled as sequences of one-character strings,  *)
(* so that toLowerCase, trim, join and localeCompare are computed and not  *)
(* assumed.  null/undefined is the one-element sequence NULL, which no     *)
(* string equals (every element of a string is a single character).        *)
(***************************************************************************)
EXTENDS Integers, Sequences, FiniteSets, TLC

\* ---------------------------------------------------------------- bounds
\* number of registered scrapers of SCRAPERS that the model runs
NumScrapers == 2
\* longest array a scraper returns in the model of a full run
MaxShows == 1
\* longest input array of the pipeline specification
MaxLen == 3
\* most pieces a raw price of the model is put together from
MaxTokens == 4
\* most cards, and most events, of a page of the model
MaxItems == 2

\* ---------------------------------------------------------------- strings
NULL == <<"null">>

\* String.prototype.toLowerCase on the model's alphabet
lowerChar(c) ==
  CASE c = "X" -> "x"
    [] c = "A" -> "a"
    [] c = "B" -> "b"
    [] c = "C" -> "c"
    [] c = "D" -> "d"
    [] c = "E" -> "e"
    [] c = "F" -> "f"
    [] c = "L" -> "l"
    [] c = "M" -> "m"
    [] c = "N" -> "n"
    [] c = "O" -> "o"
    [] c = "P" -> "p"
    [] c = "R" -> "r"
    [] c = "S" -> "s"
    [] c = "T" -> "t"
    [] c = "U" -> "u"
    [] OTHER -> c

toLowerCase(s) == [i \in 1..Len(s) |-> lowerChar(s[i])]

RECURSIVE trimStart(_)
trimStart(s) ==
  IF s # <<>> /\ Head(s) = " " THEN trimStart(Tail(s)) ELSE s

RECURSIVE trimEnd(_)
trimEnd(s) ==
  IF s # <<>> /\ s[Len(s)] = " " THEN trimEnd(SubSeq(s, 1, Len(s) - 1)) ELSE s

\* String.prototype.trim
trim(s) == trimEnd(trimStart(s))

\* JS truthiness of a string-or-null value
truthy(s) == s # NULL /\ s # <<>>

\* s || ''  and  s ?? ''
orEmpty(s) == IF truthy(s) THEN s ELSE <<>>
nullishEmpty(s) == IF s = NULL THEN <<>> ELSE s

\* Array.prototype.join('||') on a three-element array
SEP == <<"|", "|">>
join3(a, b, c) == a \o SEP \o b \o SEP \o c

\* code unit order of the characters of an ISO date
charCode(c) ==
  CASE c = "-" -> 0
    [] c = "0" -> 1
    [] c = "1" -> 2
    [] c = "2" -> 3
    [] c = "3" -> 4
    [] c = "4" -> 5
    [] c = "5" -> 6
    [] c = "6" -> 7
    [] OTHER -> 8

\* a.localeCompare(b) on date strings: -1, 0 or 1
RECURSIVE localeCompare(_, _)
localeCompare(a, b) ==
  IF a = <<>> /\ b = <<>> THEN 0
  ELSE IF a = <<>> THEN -1
  ELSE IF b = <<>> THEN 1
  ELSE IF charCode(Head(a)) < charCode(Head(b)) THEN -1
  ELSE IF charCode(Head(a)) > charCode(Head(b)) THEN 1
  ELSE localeCompare(Tail(a), Tail(b))

\* ---------------------------------------------------------------- shows
D0314 == <<"2", "0", "2", "6", "-", "0", "3", "-", "1", "4">>
D0401 == <<"2", "0", "2", "6", "-", "0", "4", "-", "0", "1">>
T8PM == <<"8", "P", "M">>
OwnImg == <<"o", "w", "n">>
OvrImg == <<"o", "v", "r">>

Show(v, d, t, tm, img) ==
  [venue |-> v, date |-> d, title |-> t, time |-> tm, imageUrl |-> img]

\* the show objects scrapers return in the model: an exact duplicate key
\* in another spelling and with other fields (S2 of S1, S6 of S3), the same
\* date under another title (S5), another date (S4), no date (S3, S6).
\* Venues are spellings of one VENUE_NAME constant, dates are ISO dates
\* or null, as the registered scrapers emit them.
S1 == Show(<<"X">>, D0314, <<"A">>, NULL, NULL)
S2 == Show(<<"x", " ">>, D0314, <<" ", "a">>, T8PM, OwnImg)
S3 == Show(<<"X">>, NULL, <<"B">>, NULL, NULL)
S4 == Show(<<"X">>, D0401, <<"A">>, NULL, OwnImg)
S5 == Show(<<"X">>, D0314, <<"B">>, T8PM, NULL)
S6 == Show(<<"X">>, NULL, <<"b">>, T8PM, NULL)

Shows == {S1, S2, S3, S4, S5, S6}
\* the shows a scraper returns in the model of a full run
RunShows == {S1, S2, S3}

SeqUpTo(S, n) == UNION {[1..k -> S] : k \in 0..n}

\* ---------------------------------------------------------------- dedup
\* dedupKey comparing venue and title as written
dedupKeyAsCaseSensitive(show) ==
  join3(trim(orEmpty(show.venue)), orEmpty(show.date), trim(orEmpty(show.title)))

\* the key of dedup's filter callback
dedupKey(show) ==
  join3(trim(toLowerCase(orEmpty(show.venue))),
        orEmpty(show.date),
        trim(toLowerCase(orEmpty(show.title))))

\* filterSeen keeping the last show of every key
RECURSIVE filterSeenAsLastWins(_, _)
filterSeenAsLastWins(shows, seen) ==
  IF shows = <<>> THEN <<>>
  ELSE LET key == dedupKey(Head(shows))
           rest == Tail(shows)
       IN IF \E i \in 1..Len(rest) : dedupKey(rest[i]) = key
          THEN filterSeenAsLastWins(rest, seen)
          ELSE <<Head(shows)>> \o filterSeenAsLastWins(rest, seen)

\* filterSeen forgetting a key when it drops a show of that key
RECURSIVE filterSeenAsForgetful(_, _)
filterSeenAsForgetful(shows, seen) ==
  IF shows = <<>> THEN <<>>
  ELSE LET key == dedupKey(Head(shows)) IN
       IF key \in seen
       THEN filterSeenAsForgetful(Tail(shows), seen \ {key})
       ELSE <<Head(shows)>> \o filterSeenAsForgetful(Tail(shows), seen \cup {key})

\* filterSeen remembering the previous key only
RECURSIVE filterSeenAsAdjacent(_, _)
filterSeenAsAdjacent(shows, seen) ==
  IF shows = <<>> THEN <<>>
  ELSE LET key == dedupKey(Head(shows)) IN
       IF key \in seen
       THEN filterSeenAsAdjacent(Tail(shows), seen)
       ELSE <<Head(shows)>> \o filterSeenAsAdjacent(Tail(shows), {key})

\* shows.filter(...) with the Set `seen`
RECURSIVE filterSeen(_, _)
filterSeen(shows, seen) ==
  IF shows = <<>> THEN <<>>
  ELSE LET key == dedupKey(Head(shows)) IN
       IF key \in seen
       THEN filterSeen(Tail(shows), seen)
       ELSE <<Head(shows)>> \o filterSeen(Tail(shows), seen \cup {key})

dedup(shows) == filterSeen(shows, {})

\* ---------------------------------------------------------------- overrides
\* image-overrides.json: a static object from key strings to image URLs
K1 == join3(<<"x">>, D0314, <<"a">>)
K3 == join3(<<"x">>, <<>>, <<"b">>)
K1Pipe == <<"x", "|">> \o D0314 \o <<"|", "a">>

OverrideTables ==
  { [k \in {} |-> OvrImg],
    [k \in {K1} |-> OvrImg],
    [k \in {K1, K3} |-> OvrImg],
    [k \in {K1Pipe} |-> OvrImg] }

\* overrides[key]
lookup(table, key) == IF key \in DOMAIN table THEN table[key] ELSE NULL

\* overrideKey joining the three parts with one pipe character
overrideKeyAsSinglePipe(show) ==
  trim(toLowerCase(nullishEmpty(show.venue))) \o <<"|">>
    \o trim(toLowerCase(nullishEmpty(show.date))) \o <<"|">>
    \o trim(toLowerCase(nullishEmpty(show.title)))

\* the key of applyImageOverrides' map callback
overrideKey(show) ==
  join3(trim(toLowerCase(nullishEmpty(show.venue))),
        trim(toLowerCase(nullishEmpty(show.date))),
        trim(toLowerCase(nullishEmpty(show.title))))

\* the callback of shows.map: url ? { ...show, imageUrl: url } : show
overrideShow(show, table) ==
  LET url == lookup(table, overrideKey(show)) IN
  IF truthy(url) THEN [show EXCEPT !.imageUrl = url] ELSE show

\* applyImageOverrides assigning show.imageUrl on the argument's objects
applyImageOverridesAsInPlace(shows, table) ==
  [ret |-> [i \in 1..Len(shows) |-> overrideShow(shows[i], table)],
   arg |-> [i \in 1..Len(shows) |-> overrideShow(shows[i], table)]]

\* applyImageOverrides(shows): ret is the array it returns, arg the
\* objects of the argument array as the call leaves them
applyImageOverrides(shows, table) ==
  [ret |-> [i \in 1..Len(shows) |-> overrideShow(shows[i], table)],
   arg |-> shows]

\* ---------------------------------------------------------------- sort
\* compareShows with the two null branches exchanged
compareShowsAsNullsFirst(a, b) ==
  IF ~truthy(a.date) /\ ~truthy(b.date) THEN 0
  ELSE IF ~truthy(a.date) THEN -1
  ELSE IF ~truthy(b.date) THEN 1
  ELSE localeCompare(a.date, b.date)

\* the comparator of main's sort: dates ascending, nulls last
compareShows(a, b) ==
  IF ~truthy(a.date) /\ ~truthy(b.date) THEN 0
  ELSE IF ~truthy(a.date) THEN 1
  ELSE IF ~truthy(b.date) THEN -1
  ELSE localeCompare(a.date, b.date)

\* insert x behind every element that does not compare greater than x
RECURSIVE insertSorted(_, _)
insertSorted(x, sorted) ==
  IF sorted = <<>> THEN <<x>>
  ELSE IF compareShows(Head(sorted), x) > 0 THEN <<x>> \o sorted
  ELSE <<Head(sorted)>> \o insertSorted(x, Tail(sorted))

\* the one element of a singleton set
Only(S) == CHOOSE r \in S : TRUE

\* Array.prototype.sort with compareShows (stable); the sorted prefix is
\* computed once per element
RECURSIVE sortFrom(_, _)
sortFrom(shows, sorted) ==
  IF shows = <<>> THEN sorted
  ELSE Only({sortFrom(Tail(shows), prefix) :
               prefix \in {insertSorted(Head(shows), sorted)}})

sort(shows) == sortFrom(shows, <<>>)

\* ---------------------------------------------------------------- main
\* the indices of the scrapers whose promises have settled, in the order
\* in which they settled; main keeps no such record, the specification of
\* the settling order does
VARIABLE settled

\* the names of SCRAPERS, in registry order
Registry ==
  <<"89thstreet", "opolis", "towertheater", "diamondballroom", "whittierbar",
    "noisetown", "vanguard", "mercurylounge", "beercity", "resonanthead",
    "criterion">>

SCRAPERS == [i \in 1..NumScrapers |-> [name |-> Registry[i]]]

\* what a scraper's promise rejects with: an Error (with a message) or a
\* thrown value that has none; text is String(reason)
Reasons ==
  { [hasMessage |-> TRUE, message |-> "HTTP 500", text |-> "Error: HTTP 500"],
    [hasMessage |-> FALSE, message |-> "", text |-> "timeout"] }
NoReason == [hasMessage |-> FALSE, message |-> "", text |-> "undefined"]

\* what a scraper's promise fulfils with: an array of shows, or undefined
Values ==
  {[defined |-> TRUE, shows |-> a] : a \in SeqUpTo(RunShows, MaxShows)}
    \cup {[defined |-> FALSE, shows |-> <<>>]}
NoValue == [defined |-> FALSE, shows |-> <<>>]

Pending == [status |-> "pending", value |-> NoValue, reason |-> NoReason]

\* result.value ?? []
valueOrEmpty(v) == IF v.defined THEN v.shows ELSE <<>>

\* result.reason?.message ?? String(result.reason)
reasonMessage(r) == IF r.hasMessage THEN r.message ELSE r.text

\* a join that resolves only when every promise has fulfilled
allSettledAsAllFulfilled(res) == \A i \in 1..Len(res) : res[i].status = "fulfilled"

\* a join that resolves as soon as one promise has settled
allSettledAsAnySettled(res) == \E i \in 1..Len(res) : res[i].status # "pending"

\* Promise.allSettled resolves when no input promise is pending
allSettled(res) == \A i \in 1..Len(res) : res[i].status # "pending"

\* mainLoop leaving the loop at the first rejected result
RECURSIVE mainLoopAsStopAtFailure(_, _, _, _)
mainLoopAsStopAtFailure(res, i, shows, errs) ==
  IF i > Len(res) THEN [allShows |-> shows, errors |-> errs]
  ELSE IF res[i].status = "fulfilled"
  THEN mainLoopAsStopAtFailure(res, i + 1, shows \o valueOrEmpty(res[i].value), errs)
  ELSE [allShows |-> shows,
        errors |-> Append(errs, [scraper |-> SCRAPERS[i].name,
                                 error |-> reasonMessage(res[i].reason)])]

\* mainLoop assigning errors instead of pushing to it
RECURSIVE mainLoopAsLastErrorOnly(_, _, _, _)
mainLoopAsLastErrorOnly(res, i, shows, errs) ==
  IF i > Len(res) THEN [allShows |-> shows, errors |-> errs]
  ELSE IF res[i].status = "fulfilled"
  THEN mainLoopAsLastErrorOnly(res, i + 1, shows \o valueOrEmpty(res[i].value), errs)
  ELSE mainLoopAsLastErrorOnly(res, i + 1, shows,
                               <<[scraper |-> SCRAPERS[i].name,
                                  error |-> reasonMessage(res[i].reason)]>>)

\* mainLoop putting every error entry in front of the earlier ones
RECURSIVE mainLoopAsUnshift(_, _, _, _)
mainLoopAsUnshift(res, i, shows, errs) ==
  IF i > Len(res) THEN [allShows |-> shows, errors |-> errs]
  ELSE IF res[i].status = "fulfilled"
  THEN mainLoopAsUnshift(res, i + 1, shows \o valueOrEmpty(res[i].value), errs)
  ELSE mainLoopAsUnshift(res, i + 1, shows,
                         <<[scraper |-> SCRAPERS[i].name,
                            error |-> reasonMessage(res[i].reason)]>> \o errs)

\* mainLoop going through the results in the order in which they settled
RECURSIVE mainLoopAsCompletionOrder(_, _, _, _)
mainLoopAsCompletionOrder(res, i, shows, errs) ==
  IF i > Len(settled) THEN [allShows |-> shows, errors |-> errs]
  ELSE IF res[settled[i]].status = "fulfilled"
  THEN mainLoopAsCompletionOrder(res, i + 1,
                                 shows \o valueOrEmpty(res[settled[i]].value), errs)
  ELSE mainLoopAsCompletionOrder(res, i + 1, shows,
                                 Append(errs, [scraper |-> SCRAPERS[settled[i]].name,
                                               error |-> reasonMessage(res[settled[i]].reason)]))

\* the for loop of main over results, from index i on
RECURSIVE mainLoop(_, _, _, _)
mainLoop(res, i, shows, errs) ==
  IF i > Len(res) THEN [allShows |-> shows, errors |-> errs]
  ELSE IF res[i].status = "fulfilled"
  THEN mainLoop(res, i + 1, shows \o valueOrEmpty(res[i].value), errs)
  ELSE mainLoop(res, i + 1, shows,
                Append(errs, [scraper |-> SCRAPERS[i].name,
                              error |-> reasonMessage(res[i].reason)]))

\* docs/shows.json before the run
PriorOutput == [lastUpdated |-> "earlier", scraperErrors |-> <<>>, shows |-> <<>>]
PriorFile == [kind |-> "prior", data |-> PriorOutput]

\* ================================================================ utils.js
\* ---------------------------------------------------------------- prices
\* the en dash U+2013, written with a character the prices of the model
\* do not use otherwise
EnDash == "~"

Letters ==
  {"a", "b", "c", "d", "e", "f", "g", "h", "i", "j", "k", "l", "m", "n", "o",
   "p", "q", "r", "s", "t", "u", "v", "w", "x", "y", "z"}

Digits == <<"0", "1", "2", "3", "4", "5", "6", "7", "8", "9">>

\* \d and \w of a regular expression
isDigit(c) == \E n \in 1..Len(Digits) : Digits[n] = c
isWord(c) == isDigit(c) \/ lowerChar(c) \in Letters \/ c = "_"

Free == <<"F", "r", "e", "e">>

\* the four spellings normalizePrice compares s with
FreeWords ==
  { <<"f", "r", "e", "e">>,
    <<"f", "r", "e", "e", " ", "a", "d", "m", "i", "s", "s", "i", "o", "n">>,
    <<"0">>,
    <<"$", "0">> }

\* .replace(/\.00\b/g, ''): every ".00" that no word character follows
RECURSIVE stripCents(_)
stripCents(s) ==
  IF s = <<>> THEN <<>>
  ELSE IF /\ Len(s) >= 3
          /\ SubSeq(s, 1, 3) = <<".", "0", "0">>
          /\ (Len(s) = 3 \/ ~isWord(s[4]))
  THEN stripCents(SubSeq(s, 4, Len(s)))
  ELSE <<Head(s)>> \o stripCents(Tail(s))

\* .replace(/-/g, EnDash)
replaceHyphens(s) == [i \in 1..Len(s) |-> IF s[i] = "-" THEN EnDash ELSE s[i]]

\* ensureDollar putting a "$" in front of every text
ensureDollarAsAlways(s) == <<"$">> \o s

\* .replace(/^\$?(\d)/, '$$$1'): "$" and the digit for an optional "$" and
\* a digit at the start
ensureDollar(s) ==
  IF s # <<>> /\ isDigit(s[1]) THEN <<"$">> \o s
  ELSE IF Len(s) >= 2 /\ s[1] = "$" /\ isDigit(s[2]) THEN <<"$", s[2]>> \o SubSeq(s, 3, Len(s))
  ELSE s

\* normalizePrice testing for the free spellings after the replacements
normalizePriceAsFreeLast(raw) ==
  IF ~truthy(raw) THEN NULL
  ELSE LET t == replaceHyphens(stripCents(trim(raw))) IN
       IF toLowerCase(t) \in FreeWords THEN Free ELSE ensureDollar(t)

normalizePrice(raw) ==
  IF ~truthy(raw) THEN NULL
  ELSE LET s == toLowerCase(trim(raw)) IN
       IF s \in FreeWords THEN Free
       ELSE ensureDollar(replaceHyphens(stripCents(trim(raw))))

\* ---------------------------------------------------------------- normalizeShow
UnknownShow == <<"U", "n", "k", "n", "o", "w", "n", " ", "S", "h", "o", "w">>
UnknownVenue == <<"U", "n", "k", "n", "o", "w", "n", " ", "V", "e", "n", "u", "e">>

\* what a call of a method on null or undefined leaves: a TypeError
THROWN == <<"TypeError">>

\* s.trim()  and  s?.trim()
callTrim(s) == IF s = NULL THEN THROWN ELSE trim(s)
optTrim(s) == IF s = NULL THEN NULL ELSE callTrim(s)

\* a || b
orElse(a, b) == IF truthy(a) THEN a ELSE b

\* Array.isArray(partial.tags) ? partial.tags : []
tagsOrEmpty(tags) == IF tags.isArray THEN tags.items ELSE <<>>

\* the fields of the object normalizeShow builds whose expression calls trim
TrimmedFields == {"title", "venue", "time", "price", "description", "ageLimit"}

\* the completion of a call that evaluated the object literal show: the
\* call threw if a field's expression did; priceCalls are the arguments
\* normalizePrice was called with
completion(show, priceCalls) ==
  [threw |-> \E f \in TrimmedFields : show[f] = THROWN,
   show |-> show,
   priceCalls |-> priceCalls]

\* normalizeShow with title and venue not trimmed
normalizeShowAsUntrimmed(partial) ==
  completion(
    [title |-> orElse(partial.title, UnknownShow),
     venue |-> orElse(partial.venue, UnknownVenue),
     venueUrl |-> orElse(partial.venueUrl, NULL),
     date |-> orElse(partial.date, NULL),
     time |-> orElse(optTrim(partial.time), NULL),
     price |-> IF truthy(partial.price) THEN normalizePrice(partial.price) ELSE NULL,
     description |-> orElse(optTrim(partial.description), NULL),
     eventUrl |-> orElse(partial.eventUrl, NULL),
     ageLimit |-> orElse(optTrim(partial.ageLimit), NULL),
     tags |-> tagsOrEmpty(partial.tags)],
    IF truthy(partial.price) THEN <<partial.price>> ELSE <<>>)

\* normalizeShow calling trim without the optional chaining
normalizeShowAsUnguarded(partial) ==
  completion(
    [title |-> orElse(callTrim(partial.title), UnknownShow),
     venue |-> orElse(callTrim(partial.venue), UnknownVenue),
     venueUrl |-> orElse(partial.venueUrl, NULL),
     date |-> orElse(partial.date, NULL),
     time |-> orElse(callTrim(partial.time), NULL),
     price |-> IF truthy(partial.price) THEN normalizePrice(partial.price) ELSE NULL,
     description |-> orElse(callTrim(partial.description), NULL),
     eventUrl |-> orElse(partial.eventUrl, NULL),
     ageLimit |-> orElse(callTrim(partial.ageLimit), NULL),
     tags |-> tagsOrEmpty(partial.tags)],
    IF truthy(partial.price) THEN <<partial.price>> ELSE <<>>)

\* normalizeShow passing every price, supplied or not, to normalizePrice
normalizeShowAsAlwaysPrice(partial) ==
  completion(
    [title |-> orElse(optTrim(partial.title), UnknownShow),
     venue |-> orElse(optTrim(partial.venue), UnknownVenue),
     venueUrl |-> orElse(partial.venueUrl, NULL),
     date |-> orElse(partial.date, NULL),
     time |-> orElse(optTrim(partial.time), NULL),
     price |-> normalizePrice(partial.price),
     description |-> orElse(optTrim(partial.description), NULL),
     eventUrl |-> orElse(partial.eventUrl, NULL),
     ageLimit |-> orElse(optTrim(partial.ageLimit), NULL),
     tags |-> tagsOrEmpty(partial.tags)],
    <<partial.price>>)

normalizeShow(partial) ==
  completion(
    [title |-> orElse(optTrim(partial.title), UnknownShow),
     venue |-> orElse(optTrim(partial.venue), UnknownVenue),
     venueUrl |-> orElse(partial.venueUrl, NULL),
     date |-> orElse(partial.date, NULL),
     time |-> orElse(optTrim(partial.time), NULL),
     price |-> IF truthy(partial.price) THEN normalizePrice(partial.price) ELSE NULL,
     description |-> orElse(optTrim(partial.description), NULL),
     eventUrl |-> orElse(partial.eventUrl, NULL),
     ageLimit |-> orElse(optTrim(partial.ageLimit), NULL),
     tags |-> tagsOrEmpty(partial.tags)],
    IF truthy(partial.price) THEN <<partial.price>> ELSE <<>>)

\* ---------------------------------------------------------------- dates
\* the number a digit string writes, and a number in a given width
digitValue(c) == (CHOOSE n \in 1..Len(Digits) : Digits[n] = c) - 1

RECURSIVE toNumber(_)
toNumber(s) ==
  IF s = <<>> THEN 0
  ELSE 10 * toNumber(SubSeq(s, 1, Len(s) - 1)) + digitValue(s[Len(s)])

allDigits(s) == \A i \in 1..Len(s) : isDigit(s[i])
pad(n, width) == [i \in 1..width |-> Digits[((n \div 10^(width - i)) % 10) + 1]]

isLeapYear(y) == (y % 4 = 0 /\ y % 100 # 0) \/ y % 400 = 0
daysInMonth(y, m) ==
  IF m = 2 THEN (IF isLeapYear(y) THEN 29 ELSE 28)
  ELSE IF m \in {4, 6, 9, 11} THEN 30 ELSE 31

\* a Date, in the fields the process's local time zone shows: year, month
\* (1..12), day, and minutes after midnight; InvalidDate is new Date(NaN)
DateAt(y, m, d, min) == [y |-> y, m |-> m, d |-> d, min |-> min]
InvalidDate == DateAt(0, 0, 0, 0)
\* an isValid that takes every Date for a valid one
isValidAsAlways(date) == TRUE
isValid(date) == date # InvalidDate

nextDay(date) ==
  IF date.d < daysInMonth(date.y, date.m) THEN [date EXCEPT !.d = date.d + 1]
  ELSE IF date.m < 12 THEN [date EXCEPT !.m = date.m + 1, !.d = 1]
  ELSE [date EXCEPT !.y = date.y + 1, !.m = 1, !.d = 1]

prevDay(date) ==
  IF date.d > 1 THEN [date EXCEPT !.d = date.d - 1]
  ELSE IF date.m > 1
  THEN [date EXCEPT !.m = date.m - 1, !.d = daysInMonth(date.y, date.m - 1)]
  ELSE [date EXCEPT !.y = date.y - 1, !.m = 12, !.d = 31]

RECURSIVE addDays(_, _)
addDays(date, k) ==
  IF k = 0 THEN date
  ELSE IF k > 0 THEN addDays(nextDay(date), k - 1)
  ELSE addDays(prevDay(date), k + 1)

\* a < b on Dates
dateLess(a, b) ==
  \/ a.y < b.y
  \/ a.y = b.y /\ a.m < b.m
  \/ a.y = b.y /\ a.m = b.m /\ a.d < b.d
  \/ a.y = b.y /\ a.m = b.m /\ a.d = b.d /\ a.min < b.min

\* Date.prototype.setFullYear: February 29 of a year without one is March 1
setFullYear(date, y) ==
  IF date.d > daysInMonth(y, date.m)
  THEN [date EXCEPT !.y = y, !.m = date.m + 1, !.d = date.d - daysInMonth(y, date.m)]
  ELSE [date EXCEPT !.y = y]

\* format(d, 'yyyy-MM-dd'): the local calendar day of d; date-fns throws a
\* RangeError for an Invalid Date
RangeError == <<"RangeError">>
format(date) ==
  IF date = InvalidDate THEN RangeError
  ELSE pad(date.y, 4) \o <<"-">> \o pad(date.m, 2) \o <<"-">> \o pad(date.d, 2)

\* raw.trim().replace(/\s+/g, ' ')
RECURSIVE collapseSpaces(_)
collapseSpaces(s) ==
  IF Len(s) < 2 THEN s
  ELSE IF s[1] = " " /\ s[2] = " " THEN collapseSpaces(Tail(s))
  ELSE <<Head(s)>> \o collapseSpaces(Tail(s))

\* /^\d{4}-\d{2}-\d{2}/.test(cleaned)
isoPrefix(s) ==
  /\ Len(s) >= 10
  /\ allDigits(SubSeq(s, 1, 4)) /\ s[5] = "-"
  /\ allDigits(SubSeq(s, 6, 7)) /\ s[8] = "-"
  /\ allDigits(SubSeq(s, 9, 10))

\* date-fns parseISO on the date part of a text with an ISO prefix: the
\* part must be YYYY-MM-DD and a day of the calendar
isoDay(dateText) ==
  IF Len(dateText) # 10 THEN InvalidDate
  ELSE LET y == toNumber(SubSeq(dateText, 1, 4))
           m == toNumber(SubSeq(dateText, 6, 7))
           d == toNumber(SubSeq(dateText, 9, 10))
       IN IF m \in 1..12 /\ d \in 1..daysInMonth(y, m)
          THEN DateAt(y, m, d, 0)
          ELSE InvalidDate

\* the clock of a time part, hh:mm or hh:mm:ss, in minutes; -1 if it is
\* neither or out of range
clockMinutes(clock) ==
  LET shape == /\ Len(clock) \in {5, 8}
               /\ allDigits(SubSeq(clock, 1, 2)) /\ clock[3] = ":"
               /\ allDigits(SubSeq(clock, 4, 5))
               /\ Len(clock) = 8 => (clock[6] = ":" /\ allDigits(SubSeq(clock, 7, 8)))
  IN IF /\ shape
        /\ toNumber(SubSeq(clock, 1, 2)) < 24
        /\ toNumber(SubSeq(clock, 4, 5)) < 60
        /\ Len(clock) = 8 => toNumber(SubSeq(clock, 7, 8)) < 60
     THEN 60 * toNumber(SubSeq(clock, 1, 2)) + toNumber(SubSeq(clock, 4, 5))
     ELSE -1

\* the UTC offset a time zone part writes: "Z" or a sign and hh:mm
zoneShape(zone) ==
  \/ zone = <<"Z">>
  \/ /\ Len(zone) = 6
     /\ zone[1] \in {"+", "-"}
     /\ allDigits(SubSeq(zone, 2, 3)) /\ zone[4] = ":"
     /\ allDigits(SubSeq(zone, 5, 6))
     /\ toNumber(SubSeq(zone, 5, 6)) < 60

zoneMinutes(zone) ==
  IF zone = <<"Z">> THEN 0
  ELSE (IF zone[1] = "-" THEN -1 ELSE 1)
         * (60 * toNumber(SubSeq(zone, 2, 3)) + toNumber(SubSeq(zone, 5, 6)))

\* parseISO on a time part behind a valid day: without a zone the clock is
\* local time; with one, the instant is shown in the process's zone, tz
\* minutes east of UTC
isoDayTime(day, timeText, tz) ==
  LET zoneAt == {i \in 1..Len(timeText) : timeText[i] \in {"Z", "+", "-"}}
      cut == IF zoneAt = {} THEN Len(timeText) + 1
             ELSE CHOOSE i \in zoneAt : \A j \in zoneAt : i <= j
      clock == clockMinutes(SubSeq(timeText, 1, cut - 1))
      zone == SubSeq(timeText, cut, Len(timeText))
  IN IF clock < 0 THEN InvalidDate
     ELSE IF zone = <<>> THEN [day EXCEPT !.min = clock]
     ELSE IF ~zoneShape(zone) THEN InvalidDate
     ELSE LET local == clock - zoneMinutes(zone) + tz IN
          [addDays(day, local \div (24 * 60)) EXCEPT !.min = local % (24 * 60)]

\* date-fns parseISO(text) in a process tz minutes east of UTC, for the
\* forms of ISO 8601 the inputs of the model use: a date, or a date, "T"
\* or a space, and a time with or without a zone
parseISO(text, tz) ==
  LET sepAt == {i \in 1..Len(text) : text[i] \in {"T", " "}}
      cut == IF sepAt = {} THEN Len(text) + 1 ELSE CHOOSE i \in sepAt : TRUE
      day == isoDay(SubSeq(text, 1, cut - 1))
      timeText == SubSeq(text, cut + 1, Len(text))
  IN IF Cardinality(sepAt) > 1 \/ ~isValid(day) THEN InvalidDate
     ELSE IF timeText = <<>> THEN day
     ELSE isoDayTime(day, timeText, tz)

\* the month and weekday names date-fns matches, without regard to case
MonthNames ==
  << <<"j", "a", "n", "u", "a", "r", "y">>,
     <<"f", "e", "b", "r", "u", "a", "r", "y">>,
     <<"m", "a", "r", "c", "h">>,
     <<"a", "p", "r", "i", "l">>,
     <<"m", "a", "y">>,
     <<"j", "u", "n", "e">>,
     <<"j", "u", "l", "y">>,
     <<"a", "u", "g", "u", "s", "t">>,
     <<"s", "e", "p", "t", "e", "m", "b", "e", "r">>,
     <<"o", "c", "t", "o", "b", "e", "r">>,
     <<"n", "o", "v", "e", "m", "b", "e", "r">>,
     <<"d", "e", "c", "e", "m", "b", "e", "r">> >>

DayNames ==
  << <<"s", "u", "n", "d", "a", "y">>,
     <<"m", "o", "n", "d", "a", "y">>,
     <<"t", "u", "e", "s", "d", "a", "y">>,
     <<"w", "e", "d", "n", "e", "s", "d", "a", "y">>,
     <<"t", "h", "u", "r", "s", "d", "a", "y">>,
     <<"f", "r", "i", "d", "a", "y">>,
     <<"s", "a", "t", "u", "r", "d", "a", "y">> >>

\* the abbreviated name: its first three letters
abbreviated(name) == SubSeq(name, 1, 3)

startsWithName(text, name) ==
  Len(text) >= Len(name) /\ toLowerCase(SubSeq(text, 1, Len(name))) = name

\* what a token of a format consumes: ok, the length consumed, the field
\* of the date it sets ("y", "m", "d" or "none") and the value
consumed(ok, len, field, value) ==
  [ok |-> ok, len |-> len, field |-> field, value |-> value]

\* the names of a table a text starts with, in full or abbreviated
wideAt(text, names) == {i \in 1..Len(names) : startsWithName(text, names[i])}
abbreviatedAt(text, names) ==
  {i \in 1..Len(names) : startsWithName(text, abbreviated(names[i]))}

\* a name token: the full name first ("MMMM", "EEEE"), else the
\* abbreviated one; the abbreviated one only ("MMM", "EEE")
matchName(text, names, wide, field) ==
  IF wide /\ wideAt(text, names) # {}
  THEN LET i == CHOOSE i \in wideAt(text, names) : TRUE IN
       consumed(TRUE, Len(names[i]), field, i)
  ELSE IF abbreviatedAt(text, names) # {}
  THEN LET i == CHOOSE i \in abbreviatedAt(text, names) : TRUE IN
       consumed(TRUE, 3, field, i)
  ELSE consumed(FALSE, 0, field, 0)

\* how many digits a numeric token takes: at most max ("yyyy", "MM",
\* "dd"), a month ("M": 1[0-2] or 0?\d), a day ("d": 3[01] or [0-2]?\d)
leadingDigits(text, max) ==
  Cardinality({k \in 1..max : k <= Len(text) /\ allDigits(SubSeq(text, 1, k))})

monthDigits(text) ==
  IF leadingDigits(text, 2) = 2
       /\ (text[1] = "0" \/ (text[1] = "1" /\ text[2] \in {"0", "1", "2"}))
  THEN 2 ELSE leadingDigits(text, 1)

dayDigits(text) ==
  IF leadingDigits(text, 2) = 2
       /\ (text[1] \in {"0", "1", "2"} \/ (text[1] = "3" /\ text[2] \in {"0", "1"}))
  THEN 2 ELSE leadingDigits(text, 1)

matchNumber(text, len, field) ==
  consumed(len > 0, len, field, toNumber(SubSeq(text, 1, len)))

matchToken(text, token) ==
  CASE token = "yyyy" -> matchNumber(text, leadingDigits(text, 4), "y")
    [] token = "MM" -> matchNumber(text, leadingDigits(text, 2), "m")
    [] token = "dd" -> matchNumber(text, leadingDigits(text, 2), "d")
    [] token = "M" -> matchNumber(text, monthDigits(text), "m")
    [] token = "d" -> matchNumber(text, dayDigits(text), "d")
    [] token = "MMMM" -> matchName(text, MonthNames, TRUE, "m")
    [] token = "MMM" -> matchName(text, MonthNames, FALSE, "m")
    [] token = "EEEE" -> matchName(text, DayNames, TRUE, "none")
    [] token = "EEE" -> matchName(text, DayNames, FALSE, "none")
    [] OTHER -> consumed(text # <<>> /\ Head(text) = token, 1, "none", 0)

\* the fields the tokens of a format read off a text; the whole text must
\* be consumed.  A weekday is read and sets nothing: date-fns keeps one
\* setter per priority, and the day of the month outranks the weekday.
NoFields == [ok |-> TRUE, hasYear |-> FALSE, y |-> 0, m |-> 0, d |-> 0]

RECURSIVE parseTokens(_, _, _)
parseTokens(text, tokens, got) ==
  IF tokens = <<>> THEN [got EXCEPT !.ok = (text = <<>>)]
  ELSE LET c == matchToken(text, Head(tokens))
           rest == SubSeq(text, c.len + 1, Len(text))
       IN IF ~c.ok THEN [got EXCEPT !.ok = FALSE]
          ELSE parseTokens(rest, Tail(tokens),
                 CASE c.field = "y" -> [got EXCEPT !.y = c.value, !.hasYear = TRUE]
                   [] c.field = "m" -> [got EXCEPT !.m = c.value]
                   [] c.field = "d" -> [got EXCEPT !.d = c.value]
                   [] OTHER -> got)

\* date-fns parse(text, fmt, refDate) with refDate the first of January of
\* referenceYear: local midnight of the day read, in the year read or else
\* the reference year; an Invalid Date if the text does not match or the
\* day is none of the calendar
parse(text, fmt, referenceYear) ==
  LET got == parseTokens(text, fmt, NoFields)
      year == IF got.hasYear THEN got.y ELSE referenceYear
  IN IF /\ got.ok
        /\ year >= 1
        /\ got.m \in 1..12
        /\ got.d \in 1..daysInMonth(year, got.m)
     THEN DateAt(year, got.m, got.d, 0)
     ELSE InvalidDate

DATE_FORMATS ==
  << <<"yyyy", "-", "MM", "-", "dd">>,
     <<"MM", "/", "dd", "/", "yyyy">>,
     <<"M", "/", "d", "/", "yyyy">>,
     <<"MMMM", " ", "d", ",", " ", "yyyy">>,
     <<"MMM", " ", "d", ",", " ", "yyyy">>,
     <<"EEEE", ",", " ", "MMMM", " ", "d", ",", " ", "yyyy">>,
     <<"EEEE", ",", " ", "MMM", " ", "d", ",", " ", "yyyy">>,
     <<"EEEE", ",", " ", "MMMM", " ", "d">>,
     <<"EEEE", ",", " ", "MMM", " ", "d">>,
     <<"MMMM", " ", "d">>,
     <<"MMM", " ", "d">>,
     <<"EEE", " ", "MMM", " ", "d">> >>

\* fmt.includes('y')
includesY(fmt) == \E i \in 1..Len(fmt) : fmt[i] = "yyyy"

\* the for loop of parseDate over DATE_FORMATS, from format i on; today is
\* local midnight of the day of the call
RECURSIVE tryFormats(_, _, _, _)
tryFormats(cleaned, i, referenceYear, today) ==
  IF i > Len(DATE_FORMATS) THEN NULL
  ELSE LET d == parse(cleaned, DATE_FORMATS[i], referenceYear) IN
       IF ~isValid(d) THEN tryFormats(cleaned, i + 1, referenceYear, today)
       ELSE IF ~includesY(DATE_FORMATS[i]) /\ dateLess(d, today)
       THEN format(setFullYear(d, d.y + 1))
       ELSE format(d)

\* parseDate(raw, referenceYear) called on the local day today in a
\* process tz minutes east of UTC
parseDate(raw, referenceYear, today, tz) ==
  IF ~truthy(raw) THEN NULL
  ELSE LET cleaned == collapseSpaces(trim(raw)) IN
       IF isoPrefix(cleaned)
       THEN LET d == parseISO(cleaned, tz) IN
            IF isValid(d) THEN format(d) ELSE NULL
       ELSE tryFormats(cleaned, 1, referenceYear, today)

\* no helper is followed on its own
NoCall == [fn |-> "none", arg |-> NULL, state |-> "idle", ret |-> NULL]

\* no scraper is followed on its own
NoScrape == [adapter |-> "none"]

VARIABLES
  overrides,  \* the imported image-overrides.json
  results,    \* the state of the promises passed to Promise.allSettled
  pc,         \* where main is
  allShows,   \* main's allShows
  errors,     \* main's errors
  deduped,    \* the objects of the array dedup returned
  unique,     \* main's unique
  output,     \* main's output
  file,       \* docs/shows.json
  writes,     \* calls of writeFile so far
  helper,     \* the call of a helper of utils.js that is followed on its own
  scraper     \* the call of a scraper's scrape() that is followed on its own

vars == <<overrides, results, settled, pc, allShows, errors, deduped, unique, output, file, writes, helper, scraper>>

Init ==
  /\ overrides \in OverrideTables
  /\ results = [i \in 1..NumScrapers |-> Pending]
  /\ settled = <<>>
  /\ pc = "join"
  /\ allShows = <<>>
  /\ errors = <<>>
  /\ deduped = <<>>
  /\ unique = <<>>
  /\ output = PriorOutput
  /\ file = PriorFile
  /\ writes = 0
  /\ helper = NoCall
  /\ scraper = NoScrape

\* scraper i returns
Fulfil(i) ==
  /\ pc = "join"
  /\ results[i].status = "pending"
  /\ \E v \in Values :
       results' = [results EXCEPT ![i] = [status |-> "fulfilled", value |-> v, reason |-> NoReason]]
  /\ UNCHANGED <<scraper, settled, helper, overrides, pc, allShows, errors, deduped, unique, output, file, writes>>

\* scraper i throws
Reject(i) ==
  /\ pc = "join"
  /\ results[i].status = "pending"
  /\ \E r \in Reasons :
       results' = [results EXCEPT ![i] = [status |-> "rejected", value |-> NoValue, reason |-> r]]
  /\ UNCHANGED <<scraper, settled, helper, overrides, pc, allShows, errors, deduped, unique, output, file, writes>>

\* lines 85-97 of main: dedup, image overrides, sort, and the output
\* object; each intermediate array is computed once
assemble(shows, errs) ==
  \E dd \in {dedup(shows)} :
    \E ov \in {applyImageOverrides(dd, overrides)} :
      \E sorted \in {sort(ov.ret)} :
        /\ deduped' = ov.arg
        /\ unique' = sorted
        /\ output' = [lastUpdated |-> "now", scraperErrors |-> errs, shows |-> sorted]

\* main from the resolution of Promise.allSettled to the call of mkdir
Collect ==
  /\ pc = "join"
  /\ allSettled(results)
  /\ \E merged \in {mainLoop(results, 1, <<>>, <<>>)} :
       /\ allShows' = merged.allShows
       /\ errors' = merged.errors
       /\ assemble(merged.allShows, merged.errors)
  /\ pc' = "mkdir"
  /\ UNCHANGED <<scraper, settled, helper, overrides, results, file, writes>>

\* mkdir(dirname(OUT_PATH), { recursive: true }) resolves
MkdirOk ==
  /\ pc = "mkdir"
  /\ pc' = "write"
  /\ UNCHANGED <<scraper, settled, helper, overrides, results, allShows, errors, deduped, unique, output, file, writes>>

\* an mkdir failure after which an empty snapshot is put in place of the
\* prior one
MkdirFailAsFallback ==
  /\ pc = "mkdir"
  /\ pc' = "fatal"
  /\ file' = [kind |-> "snapshot", data |-> [output EXCEPT !.shows = <<>>]]
  /\ UNCHANGED <<scraper, settled, helper, overrides, results, allShows, errors, deduped, unique, output, writes>>

\* mkdir rejects: main rejects, the catch handler exits with status 1
MkdirFail ==
  /\ pc = "mkdir"
  /\ pc' = "fatal"
  /\ UNCHANGED <<scraper, settled, helper, overrides, results, allShows, errors, deduped, unique, output, file, writes>>

\* writeFile(OUT_PATH, JSON.stringify(output, null, 2), 'utf8') resolves
WriteOk ==
  /\ pc = "write"
  /\ file' = [kind |-> "snapshot", data |-> output]
  /\ writes' = writes + 1
  /\ pc' = "done"
  /\ UNCHANGED <<scraper, settled, helper, overrides, results, allShows, errors, deduped, unique, output>>

\* writeFile rejects: the file is as before or was truncated
WriteFail ==
  /\ pc = "write"
  /\ \E k \in {"prior", "partial"} :
       file' = IF k = "prior" THEN file ELSE [kind |-> "partial", data |-> PriorOutput]
  /\ writes' = writes + 1
  /\ pc' = "fatal"
  /\ UNCHANGED <<scraper, settled, helper, overrides, results, allShows, errors, deduped, unique, output>>

Next ==
  \/ \E i \in 1..NumScrapers : Fulfil(i)
  \/ \E i \in 1..NumScrapers : Reject(i)
  \/ Collect
  \/ MkdirOk
  \/ MkdirFail
  \/ WriteOk
  \/ WriteFail

Spec == Init /\ [][Next]_vars

\* every scraper's promise settles (the claim's assumption), main's
\* continuation runs once Promise.allSettled has resolved, and mkdir and
\* writeFile settle, one way or the other
FairSpec ==
  /\ Spec
  /\ \A i \in 1..NumScrapers : WF_vars(Fulfil(i) \/ Reject(i))
  /\ WF_vars(Collect)
  /\ WF_vars(MkdirOk \/ MkdirFail)
  /\ WF_vars(WriteOk \/ WriteFail)

\* ------------------------------------------------- the settling order
\* scraper i returns, and the order of settling is recorded
FulfilNoted(i) ==
  /\ pc = "join"
  /\ results[i].status = "pending"
  /\ \E v \in Values :
       results' = [results EXCEPT ![i] = [status |-> "fulfilled", value |-> v, reason |-> NoReason]]
  /\ settled' = Append(settled, i)
  /\ UNCHANGED <<scraper, helper, overrides, pc, allShows, errors, deduped, unique, output, file, writes>>

\* scraper i throws, and the order of settling is recorded
RejectNoted(i) ==
  /\ pc = "join"
  /\ results[i].status = "pending"
  /\ \E r \in Reasons :
       results' = [results EXCEPT ![i] = [status |-> "rejected", value |-> NoValue, reason |-> r]]
  /\ settled' = Append(settled, i)
  /\ UNCHANGED <<scraper, helper, overrides, pc, allShows, errors, deduped, unique, output, file, writes>>

NextOrder ==
  \/ \E i \in 1..NumScrapers : FulfilNoted(i)
  \/ \E i \in 1..NumScrapers : RejectNoted(i)
  \/ Collect
  \/ MkdirOk
  \/ MkdirFail
  \/ WriteOk
  \/ WriteFail

OrderSpec == Init /\ [][NextOrder]_vars

\* ------------------------------------------------- the pipeline on its own
\* main entered behind its for loop (line 85) with any array allShows of at
\* most MaxLen shows and no errors
InitPipeline ==
  /\ overrides \in OverrideTables
  /\ results = [i \in 1..NumScrapers |-> [status |-> "fulfilled", value |-> NoValue, reason |-> NoReason]]
  /\ settled = [i \in 1..NumScrapers |-> i]
  /\ pc = "merged"
  /\ allShows \in SeqUpTo(Shows, MaxLen)
  /\ errors = <<>>
  /\ deduped = <<>>
  /\ unique = <<>>
  /\ output = PriorOutput
  /\ file = PriorFile
  /\ writes = 0
  /\ helper = NoCall
  /\ scraper = NoScrape

\* main from line 85 to the call of mkdir
Assemble ==
  /\ pc = "merged"
  /\ assemble(allShows, errors)
  /\ pc' = "mkdir"
  /\ UNCHANGED <<scraper, settled, helper, overrides, results, allShows, errors, file, writes>>

NextPipeline ==
  \/ Assemble
  \/ MkdirOk
  \/ MkdirFail
  \/ WriteOk
  \/ WriteFail

PipelineSpec == InitPipeline /\ [][NextPipeline]_vars

\* ================================================================ the helpers on their own
mainVars == <<overrides, results, settled, pc, allShows, errors, deduped, unique, output, file, writes>>

\* main has not been entered
MainIdle ==
  /\ overrides = [k \in {} |-> OvrImg]
  /\ results = [i \in 1..NumScrapers |-> Pending]
  /\ settled = <<>>
  /\ pc = "utils"
  /\ allShows = <<>>
  /\ errors = <<>>
  /\ deduped = <<>>
  /\ unique = <<>>
  /\ output = PriorOutput
  /\ file = PriorFile
  /\ writes = 0

Called(fn, arg) == [fn |-> fn, arg |-> arg, state |-> "called", ret |-> NULL]

\* ---------------------------------------------------------------- normalizeShow
Url == <<"u", "r", "l">>
Img == <<"i", "m", "g">>
Rock == <<"r", "o", "c", "k">>

\* the objects scrapers pass to normalizeShow: every field absent, empty,
\* blank or a text (with spaces around it); tags absent, a text or an array
Candidates ==
  [title : {NULL, <<>>, <<" ">>, <<" ", "A", " ">>},
   venue : {NULL, <<>>, <<"x", " ">>},
   venueUrl : {NULL, Url},
   date : {NULL, D0314},
   time : {NULL, <<>>, <<" ", "8", "P", "M">>},
   price : {NULL, <<>>, <<" ">>, <<"1", "5", ".", "0", "0">>},
   description : {NULL, <<"a", " ">>},
   eventUrl : {NULL, Url},
   ageLimit : {NULL, <<"2", "1", "+">>},
   tags : {[isArray |-> FALSE, items |-> <<>>],
           [isArray |-> FALSE, items |-> Rock],
           [isArray |-> TRUE, items |-> <<>>],
           [isArray |-> TRUE, items |-> <<Rock>>]},
   imageUrl : {NULL, Img}]

InitShow ==
  /\ MainIdle
  /\ helper \in {Called("normalizeShow", partial) : partial \in Candidates}
  /\ scraper = NoScrape

\* one call of normalizeShow, to its return or its throw
NormalizeShow ==
  /\ helper.fn = "normalizeShow"
  /\ helper.state = "called"
  /\ \E r \in {normalizeShow(helper.arg)} :
       helper' = [helper EXCEPT !.state = IF r.threw THEN "threw" ELSE "returned",
                            !.ret = r]
  /\ UNCHANGED <<mainVars, scraper>>

NextShow == NormalizeShow

ShowSpec == InitShow /\ [][NextShow]_vars

\* ---------------------------------------------------------------- normalizePrice
\* the pieces raw prices are put together from
PriceTokens ==
  { <<"$">>, <<"0">>, <<"1", "0">>, <<"1", "5">>, <<".", "0", "0">>,
    <<"-">>, <<EnDash>>, <<" ">>, <<"x">> }

RECURSIVE flatten(_)
flatten(ss) == IF ss = <<>> THEN <<>> ELSE Head(ss) \o flatten(Tail(ss))

\* the prices of the documentation of normalizePrice and of the show
\* schema, the free spellings, and two ranges with cents
DocumentedPrices ==
  { <<"1", "5", ".", "0", "0">>,
    <<"f", "r", "e", "e">>,
    <<"$", "1", "0", "-", "$", "1", "5">>,
    <<"F", "r", "e", "e">>,
    <<"$", "1", "5">>,
    <<"$", "1", "0", EnDash, "$", "2", "0">>,
    <<" ", "F", "R", "E", "E", " ">>,
    <<"F", "r", "e", "e", " ", "a", "d", "m", "i", "s", "s", "i", "o", "n">>,
    <<"1", "0", ".", "0", "0", "-", "1", "5", ".", "0", "0">>,
    <<"$", "1", "0", ".", "0", "0", "-", "$", "1", "5", ".", "0", "0">> }

RawPrices ==
  {NULL} \cup DocumentedPrices
    \cup {flatten(ts) : ts \in SeqUpTo(PriceTokens, MaxTokens)}

InitPrice ==
  /\ MainIdle
  /\ helper \in {Called("normalizePrice", raw) : raw \in RawPrices}
  /\ scraper = NoScrape

\* one call of normalizePrice
NormalizePrice ==
  /\ helper.fn = "normalizePrice"
  /\ helper.state = "called"
  /\ helper' = [helper EXCEPT !.state = "returned", !.ret = normalizePrice(helper.arg)]
  /\ UNCHANGED <<mainVars, scraper>>

NextPrice == NormalizePrice

PriceSpec == InitPrice /\ [][NextPrice]_vars

\* ---------------------------------------------------------------- parseDate
\* the days the date texts of the model write: an ordinary day, February
\* 29 (a day of 2028 only), February 30 (of no year), the first of a
\* month and the last day of a year
Years == {2026, 2028}
MonthDays == {<<2, 26>>, <<2, 29>>, <<2, 30>>, <<3, 1>>, <<12, 31>>}

\* clocks (minutes after midnight) and zones of ISO texts
Clocks == {0, 20 * 60, 23 * 60 + 30}
Zones ==
  { <<"Z">>,
    <<"-", "0", "5", ":", "0", "0">>,
    <<"+", "0", "9", ":", "0", "0">> }

\* the zone of the process, minutes east of UTC: US Central daylight
\* time, UTC, Japan
TimeZones == {-300, 0, 540}

\* the local day of the call
Todays ==
  { DateAt(2026, 2, 26, 0), DateAt(2026, 2, 27, 0), DateAt(2026, 11, 5, 0),
    DateAt(2027, 1, 1, 0), DateAt(2028, 2, 29, 0), DateAt(2028, 3, 1, 0) }

upperChar(c) ==
  CASE c = "a" -> "A"
    [] c = "p" -> "P"
    [] c = "f" -> "F"
    [] c = "m" -> "M"
    [] c = "d" -> "D"
    [] c = "t" -> "T"
    [] OTHER -> c

capital(name) == <<upperChar(Head(name))>> \o Tail(name)
monthText(m) == capital(MonthNames[m])
monthAbbr(m) == capital(abbreviated(MonthNames[m]))
Thursday == capital(DayNames[5])
Thu == capital(abbreviated(DayNames[5]))
number(n) == IF n < 10 THEN pad(n, 1) ELSE IF n < 100 THEN pad(n, 2) ELSE pad(n, 4)
isoText(y, m, d) == pad(y, 4) \o <<"-">> \o pad(m, 2) \o <<"-">> \o pad(d, 2)
clockText(c) == pad(c \div 60, 2) \o <<":">> \o pad(c % 60, 2) \o <<":", "0", "0">>

\* a raw date text, with what it is made of: its kind, and the year (0 if
\* it writes none), month and day it writes
DateInput(kind, text, y, m, d) ==
  [kind |-> kind, text |-> text, y |-> y, m |-> m, d |-> d]

IsoInputs ==
  UNION { {DateInput("iso", isoText(y, md[1], md[2]), y, md[1], md[2]),
           DateInput("isoJunk", isoText(y, md[1], md[2]) \o <<"x">>, y, md[1], md[2])}
            \cup {DateInput("isoLocal",
                            isoText(y, md[1], md[2]) \o <<"T">> \o clockText(c),
                            y, md[1], md[2]) : c \in Clocks}
            \cup {DateInput("isoZone",
                            isoText(y, md[1], md[2]) \o <<"T">> \o clockText(cz[1]) \o cz[2],
                            y, md[1], md[2]) : cz \in Clocks \X Zones}
          : <<y, md>> \in Years \X MonthDays }

YearInputs ==
  UNION { { DateInput("slash",
                      pad(md[1], 2) \o <<"/">> \o pad(md[2], 2) \o <<"/">> \o number(y),
                      y, md[1], md[2]),
            DateInput("slashShort",
                      number(md[1]) \o <<"/">> \o number(md[2]) \o <<"/">> \o number(y),
                      y, md[1], md[2]),
            DateInput("longYear",
                      monthText(md[1]) \o <<" ">> \o number(md[2]) \o <<",", " ">> \o number(y),
                      y, md[1], md[2]),
            DateInput("shortYear",
                      monthAbbr(md[1]) \o <<" ">> \o number(md[2]) \o <<",", " ">> \o number(y),
                      y, md[1], md[2]),
            DateInput("dayLongYear",
                      Thursday \o <<",", " ">> \o monthText(md[1]) \o <<" ">>
                        \o number(md[2]) \o <<",", " ">> \o number(y),
                      y, md[1], md[2]),
            DateInput("dayShortYear",
                      Thu \o <<",", " ">> \o monthAbbr(md[1]) \o <<" ">>
                        \o number(md[2]) \o <<",", " ">> \o number(y),
                      y, md[1], md[2]) }
            \cup (IF md[1] < 10
                  THEN {DateInput("dash",
                                  number(y) \o <<"-">> \o number(md[1]) \o <<"-">> \o number(md[2]),
                                  y, md[1], md[2])}
                  ELSE {})
          : <<y, md>> \in Years \X MonthDays }

YearlessKinds == {"long", "short", "dayLong", "dayShort", "dayShortPlain", "spaced"}

YearlessInputs ==
  UNION { { DateInput("long", monthText(md[1]) \o <<" ">> \o number(md[2]), 0, md[1], md[2]),
            DateInput("short", monthAbbr(md[1]) \o <<" ">> \o number(md[2]), 0, md[1], md[2]),
            DateInput("dayLong",
                      Thursday \o <<",", " ">> \o monthText(md[1]) \o <<" ">> \o number(md[2]),
                      0, md[1], md[2]),
            DateInput("dayShort",
                      Thu \o <<",", " ">> \o monthAbbr(md[1]) \o <<" ">> \o number(md[2]),
                      0, md[1], md[2]),
            DateInput("dayShortPlain",
                      Thu \o <<" ">> \o monthAbbr(md[1]) \o <<" ">> \o number(md[2]),
                      0, md[1], md[2]),
            DateInput("spaced",
                      <<" ", " ">> \o monthText(md[1]) \o <<" ", " ", " ">> \o number(md[2]) \o <<" ">>,
                      0, md[1], md[2]) }
          : md \in MonthDays }

OtherInputs ==
  { DateInput("null", NULL, 0, 0, 0),
    DateInput("empty", <<>>, 0, 0, 0),
    DateInput("blank", <<" ">>, 0, 0, 0),
    DateInput("text", <<"T", "B", "A">>, 0, 0, 0) }

DateInputs == IsoInputs \cup YearInputs \cup YearlessInputs \cup OtherInputs

\* a call parseDate(raw) or parseDate(raw, referenceYear), on the day
\* today, in a process tz minutes east of UTC
DateCalls ==
  [input : DateInputs,
   given : {TRUE},
   referenceYear : Years,
   today : Todays,
   tz : TimeZones]
    \cup {[input |-> in, given |-> FALSE, referenceYear |-> t.y, today |-> t, tz |-> z]
            : <<in, t, z>> \in DateInputs \X Todays \X TimeZones}

InitDate ==
  /\ MainIdle
  /\ helper \in {Called("parseDate", c) : c \in DateCalls}
  /\ scraper = NoScrape

\* one call of parseDate, to its return or its throw; the default of
\* referenceYear is new Date().getFullYear(), the year of today
ParseDate ==
  /\ helper.fn = "parseDate"
  /\ helper.state = "called"
  /\ \E r \in {parseDate(helper.arg.input.text,
                          IF helper.arg.given THEN helper.arg.referenceYear
                          ELSE helper.arg.today.y,
                          helper.arg.today, helper.arg.tz)} :
       helper' = [helper EXCEPT !.state = IF r = RangeError THEN "threw" ELSE "returned",
                                !.ret = r]
  /\ UNCHANGED <<mainVars, scraper>>

NextDate == ParseDate

DateSpec == InitDate /\ [][NextDate]_vars

\* ---------------------------------------------------------------- dedup
\* shows whose venue or title holds the separator of the key string, next
\* to shows that differ from them in spelling or in the date only
PipeShows ==
  { Show(<<"x", "|", "|">>, NULL, <<"y">>, NULL, NULL),
    Show(<<"x">>, NULL, <<"|", "|", "y">>, T8PM, NULL),
    Show(<<"x">>, NULL, <<"y">>, NULL, NULL),
    Show(<<"X", " ">>, NULL, <<" ", "Y">>, T8PM, NULL),
    Show(<<"x">>, D0314, <<"y">>, NULL, NULL) }

InitDedup ==
  /\ MainIdle
  /\ helper \in {Called("dedup", shows) : shows \in SeqUpTo(PipeShows, MaxLen)}
  /\ scraper = NoScrape

\* one call of dedup
Dedup ==
  /\ helper.fn = "dedup"
  /\ helper.state = "called"
  /\ helper' = [helper EXCEPT !.state = "returned", !.ret = dedup(helper.arg)]
  /\ UNCHANGED <<mainVars, scraper>>

NextDedup == Dedup

DedupSpec == InitDedup /\ [][NextDedup]_vars

\* ================================================================ the scrapers on their own
\* String.prototype.toUpperCase on the letters of "am" and "pm"
toUpperCase(s) == [i \in 1..Len(s) |-> upperChar(s[i])]

\* a whole number in decimal digits
RECURSIVE decimal(_)
decimal(n) == IF n < 10 THEN <<Digits[n + 1]>> ELSE decimal(n \div 10) \o <<Digits[(n % 10) + 1]>>

\* ---------------------------------------------------------------- beercity.js
PREKINDLE_URL == <<"h", "t", "t", "p", "s", ":", "/", "/", "w", "w", "w", ".", "p", "r", "e", "k", "i", "n", "d", "l", "e", ".", "c", "o", "m", "/", "e", "v", "e", "n", "t", "s", "/", "b", "e", "e", "r", "-", "c", "i", "t", "y", "-", "m", "u", "s", "i", "c", "-", "h", "a", "l", "l">>
BEERCITY_VENUE_NAME == <<"B", "e", "e", "r", " ", "C", "i", "t", "y", " ", "M", "u", "s", "i", "c", " ", "H", "a", "l", "l">>
BEERCITY_VENUE_URL == <<"h", "t", "t", "p", "s", ":", "/", "/", "w", "w", "w", ".", "b", "e", "e", "r", "c", "i", "t", "y", "m", "u", "s", "i", "c", "h", "a", "l", "l", ".", "c", "o", "m">>

\* how long a match of \d{1,2}:\d{2}(?:am|pm), in any case, at the start of
\* text is; 0 if there is none
timeLength(text) ==
  LET at(k) == /\ Len(text) >= k + 5
               /\ allDigits(SubSeq(text, 1, k))
               /\ text[k + 1] = ":"
               /\ allDigits(SubSeq(text, k + 2, k + 3))
               /\ toLowerCase(SubSeq(text, k + 4, k + 5)) \in {<<"a", "m">>, <<"p", "m">>}
  IN IF at(2) THEN 7 ELSE IF at(1) THEN 6 ELSE 0

\* timesText.match(/(\d{1,2}:\d{2}(?:am|pm))/i)?.[1]
RECURSIVE anyMatch(_)
anyMatch(text) ==
  IF text = <<>> THEN NULL
  ELSE IF timeLength(text) > 0 THEN SubSeq(text, 1, timeLength(text))
  ELSE anyMatch(Tail(text))

\* timesText.match(/Start\s+(\d{1,2}:\d{2}(?:am|pm))/i)?.[1]
RECURSIVE startMatch(_)
startMatch(text) ==
  IF Len(text) < 6 THEN NULL
  ELSE LET rest == trimStart(SubSeq(text, 6, Len(text))) IN
       IF /\ toLowerCase(SubSeq(text, 1, 5)) = <<"s", "t", "a", "r", "t">>
          /\ text[6] = " "
          /\ timeLength(rest) > 0
       THEN SubSeq(rest, 1, timeLength(rest))
       ELSE startMatch(Tail(text))

\* the time of a card: "Start X" first, else the first time of the text,
\* with " AM" or " PM" for its am or pm
cardTime(timesText) ==
  LET raw == IF startMatch(timesText) # NULL THEN startMatch(timesText)
             ELSE anyMatch(timesText)
  IN IF raw = NULL THEN NULL
     ELSE SubSeq(raw, 1, Len(raw) - 2) \o <<" ">>
            \o toUpperCase(SubSeq(raw, Len(raw) - 1, Len(raw)))

\* step 1 of scrape: the Map timeByTitle after the cards from the first on
RECURSIVE timeByTitle(_, _)
timeByTitle(cards, map) ==
  IF cards = <<>> THEN map
  ELSE LET title == toLowerCase(trim(Head(cards).headline))
           time == cardTime(trim(Head(cards).times))
       IN timeByTitle(Tail(cards),
            IF truthy(title)
            THEN [k \in DOMAIN map \cup {title} |-> IF k = title THEN time ELSE map[k]]
            ELSE map)

\* a lookup that makes up a time for a title without a card
eventTimeAsDefault(name, map) ==
  IF toLowerCase(trim(name)) \in DOMAIN map /\ map[toLowerCase(trim(name))] # NULL
  THEN map[toLowerCase(trim(name))]
  ELSE <<"8", ":", "0", "0", " ", "P", "M">>

\* timeByTitle.get(event.name.trim().toLowerCase()) ?? null
eventTime(name, map) == lookup(map, toLowerCase(trim(name)))

\* a field an object of the page does not have, where a number is expected
Missing == -1

\* event.startDate.split('T')[0]
RECURSIVE beforeT(_)
beforeT(text) ==
  IF text = <<>> \/ Head(text) = "T" THEN <<>> ELSE <<Head(text)>> \o beforeT(Tail(text))

\* the price of event.offers; the amounts of an offer are numbers of
\* cents, Missing if the offer has no such field: parseFloat of the field,
\* Math.round to dollars
eventPrice(offers) ==
  IF ~offers.given THEN NULL
  ELSE LET lowField == IF offers.lowPrice # Missing THEN offers.lowPrice ELSE offers.price
           low == IF lowField = Missing THEN 0 ELSE lowField
           high == IF offers.highPrice = Missing THEN 0 ELSE offers.highPrice
           round(c) == (c + 50) \div 100
       IN IF low <= 0 THEN NULL
          ELSE IF high > 0 /\ high # low
          THEN <<"$">> \o decimal(round(low)) \o <<EnDash, "$">> \o decimal(round(high))
          ELSE <<"$">> \o decimal(round(low))

\* performers.join(', '), null for none
RECURSIVE joinNames(_)
joinNames(names) ==
  IF names = <<>> THEN NULL
  ELSE IF Len(names) = 1 THEN names[1]
  ELSE names[1] \o <<",", " ">> \o joinNames(Tail(names))

\* the body of the loop over the events of a script, from the first event
\* on: shows with what it pushed
RECURSIVE eventsToShows(_, _, _)
eventsToShows(events, map, shows) ==
  IF events = <<>> THEN shows
  ELSE LET event == Head(events)
           date == beforeT(event.startDate)
       IN IF \/ ~truthy(event.name)
             \/ ~truthy(event.startDate)
             \/ ~(isoPrefix(date) /\ Len(date) = 10)
          THEN eventsToShows(Tail(events), map, shows)
          ELSE eventsToShows(Tail(events), map,
                 Append(shows,
                   normalizeShow(
                     [title |-> trim(event.name),
                      venue |-> BEERCITY_VENUE_NAME,
                      venueUrl |-> BEERCITY_VENUE_URL,
                      date |-> date,
                      time |-> eventTime(event.name, map),
                      price |-> eventPrice(event.offers),
                      description |-> joinNames(event.performer),
                      eventUrl |-> orElse(event.url, PREKINDLE_URL),
                      ageLimit |-> NULL,
                      tags |-> [isArray |-> TRUE, items |-> <<>>]]).show))

\* step 2 of scrape: the JSON-LD scripts from the first on; a script that
\* is no JSON is passed over
RECURSIVE scriptsToShows(_, _, _)
scriptsToShows(scripts, map, shows) ==
  IF scripts = <<>> THEN shows
  ELSE scriptsToShows(Tail(scripts), map,
         IF Head(scripts).json THEN eventsToShows(Head(scripts).events, map, shows)
         ELSE shows)

\* the cards and events of the pages of the model
Card(headline, times) == [headline |-> headline, times |-> times]

Cards ==
  { Card(<<"A">>, <<"D", "o", "o", "r", "s", " ", "7", ":", "0", "0", "p", "m", ",", " ", "S", "t", "a", "r", "t", " ", "8", ":", "0", "0", "p", "m">>),
    Card(<<" ", "a", " ">>, <<"9", ":", "3", "0", "P", "M">>),
    Card(<<"B">>, <<"D", "o", "o", "r", "s", " ", "7", ":", "0", "0", "p", "m">>),
    Card(<<>>, <<"8", ":", "0", "0", "p", "m">>),
    Card(<<"C">>, <<"T", "B", "A">>) }

Event(name, startDate, offers, performer, url) ==
  [name |-> name, startDate |-> startDate, offers |-> offers,
   performer |-> performer, url |-> url]

Offer(lowPrice, price, highPrice) ==
  [given |-> TRUE, lowPrice |-> lowPrice, price |-> price, highPrice |-> highPrice]
NoOffer == [given |-> FALSE, lowPrice |-> Missing, price |-> Missing, highPrice |-> Missing]

Events ==
  { Event(<<"A">>, <<"2", "0", "2", "6", "-", "0", "3", "-", "1", "4", "T", "2", "0", ":", "0", "0", ":", "0", "0">>, Offer(1000, Missing, 2000), <<<<"x">>, <<"y">>>>, Url),
    Event(<<" ", "a">>, <<"2", "0", "2", "6", "-", "0", "3", "-", "1", "4">>, NoOffer, <<>>, NULL),
    Event(<<"B">>, <<"2", "0", "2", "6", "-", "0", "4", "-", "0", "1", "T", "1", "9", ":", "0", "0", ":", "0", "0">>, Offer(Missing, 1550, Missing), <<<<"x">>>>, NULL),
    Event(<<"D">>, <<"2", "0", "2", "6", "-", "0", "4", "-", "0", "1", "T", "1", "9", ":", "0", "0", ":", "0", "0">>, Offer(Missing, Missing, 2000), <<>>, Url),
    Event(<<"C">>, <<"2", "0", "2", "6", "-", "0", "4", "-", "0", "1">>, Offer(1000, Missing, 1000), <<>>, NULL),
    Event(<<" ">>, <<"2", "0", "2", "6", "-", "0", "4", "-", "0", "1">>, NoOffer, <<>>, NULL),
    Event(NULL, <<"2", "0", "2", "6", "-", "0", "4", "-", "0", "1">>, NoOffer, <<>>, NULL),
    Event(<<"A">>, <<"M", "a", "r", "c", "h", " ", "1", "4">>, NoOffer, <<>>, NULL) }

\* the page of PREKINDLE_URL: its cards, and its JSON-LD scripts, one of
\* them with the events, before it possibly one that is no JSON
BeerCityPages ==
  { [cards |-> cards, scripts |-> broken \o <<[json |-> TRUE, events |-> events]>>]
      : cards \in SeqUpTo(Cards, MaxItems),
        events \in SeqUpTo(Events, MaxItems),
        broken \in {<<>>, <<[json |-> FALSE, events |-> <<>>]>>} }

InitBeerCity ==
  /\ MainIdle
  /\ helper = NoCall
  /\ scraper \in {[adapter |-> "beercity", pc |-> "fetch", page |-> page, shows |-> <<>>]
                    : page \in BeerCityPages}

\* fetchHtml resolves with the page: scrape runs to its return
BeerCityScraped ==
  /\ scraper.adapter = "beercity"
  /\ scraper.pc = "fetch"
  /\ \E map \in {timeByTitle(scraper.page.cards, [k \in {} |-> NULL])} :
       scraper' = [scraper EXCEPT !.pc = "returned",
                                  !.shows = scriptsToShows(scraper.page.scripts, map, <<>>)]
  /\ UNCHANGED <<mainVars, helper>>

\* fetchHtml rejects: so does scrape
BeerCityFailed ==
  /\ scraper.adapter = "beercity"
  /\ scraper.pc = "fetch"
  /\ scraper' = [scraper EXCEPT !.pc = "rejected"]
  /\ UNCHANGED <<mainVars, helper>>

NextBeerCity == BeerCityScraped \/ BeerCityFailed

BeerCitySpec == InitBeerCity /\ [][NextBeerCity]_vars

\* ---------------------------------------------------------------- vanguard.js
BASE_URL == <<"h", "t", "t", "p", "s", ":", "/", "/", "w", "w", "w", ".", "t", "h", "e", "v", "a", "n", "g", "u", "a", "r", "d", "t", "u", "l", "s", "a", ".", "c", "o", "m">>
EVENTS_URL == BASE_URL \o <<"/", "s", "h", "o", "w", "s">>
VANGUARD_VENUE_NAME == <<"T", "h", "e", " ", "V", "a", "n", "g", "u", "a", "r", "d">>

\* detail requests per batch
BATCH == 8

min(a, b) == IF a < b THEN a ELSE b

startsWith(text, prefix) ==
  Len(text) >= Len(prefix) /\ SubSeq(text, 1, Len(prefix)) = prefix

\* the first position from i on that holds no space
RECURSIVE skipSpaces(_, _)
skipSpaces(text, i) ==
  IF i <= Len(text) /\ text[i] = " " THEN skipSpaces(text, i + 1) ELSE i

\* rawTitle.replace(/^(?:SOLD\s*OUT|CANCELLED|CANCELED)\s*[|EnDash-]\s*/i, '').trim()
stripStatus(rawTitle) ==
  LET lower == toLowerCase(rawTitle)
      out == skipSpaces(lower, 5)
      word == IF startsWith(lower, <<"s", "o", "l", "d">>)
                   /\ startsWith(SubSeq(lower, out, Len(lower)), <<"o", "u", "t">>)
              THEN out + 3
              ELSE IF startsWith(lower, <<"c", "a", "n", "c", "e", "l", "l", "e", "d">>) THEN 10
              ELSE IF startsWith(lower, <<"c", "a", "n", "c", "e", "l", "e", "d">>) THEN 9
              ELSE 0
      bar == skipSpaces(rawTitle, word)
  IN IF word > 0 /\ bar <= Len(rawTitle) /\ rawTitle[bar] \in {"|", EnDash, "-"}
     THEN trim(SubSeq(rawTitle, skipSpaces(rawTitle, bar + 1), Len(rawTitle)))
     ELSE trim(rawTitle)

\* new Date(date) for a date YYYY-MM-DD: midnight UTC of that day, in the
\* fields a process tz minutes east of UTC shows
newDate(date, tz) ==
  [addDays(isoDay(date), tz \div (24 * 60)) EXCEPT !.min = tz % (24 * 60)]

\* F of the value of v, with v worked out once
Of(v, F(_)) == CHOOSE r \in {F(x) : x \in {v}} : TRUE

\* the callback of the listing loop on an item with the title rawTitle
\* and the date date: the candidates with what it pushes
vanguardItem(rawTitle, date, href, today, tz, candidates) ==
  IF ~truthy(rawTitle) \/ ~truthy(date) \/ dateLess(newDate(date, tz), today)
  THEN candidates
  ELSE Append(candidates,
              [title |-> stripStatus(rawTitle), date |-> date,
               eventUrl |-> IF truthy(href)
                            THEN (IF startsWith(href, <<"h", "t", "t", "p">>) THEN href ELSE BASE_URL \o href)
                            ELSE EVENTS_URL])

\* step 1 of scrape: candidates after the items of the listing from the
\* first on; today is local midnight of the day of the run
RECURSIVE vanguardCandidates(_, _, _, _)
vanguardCandidates(items, today, tz, candidates) ==
  IF items = <<>> THEN candidates
  ELSE vanguardCandidates(Tail(items), today, tz,
         Of(Head(items), LAMBDA item :
           Of(trim(item.title), LAMBDA rawTitle :
             Of(trim(item.date), LAMBDA dateText :
               Of(parseDate(dateText, today.y, today, tz), LAMBDA date :
                 Of(candidates, LAMBDA pushed :
                   vanguardItem(rawTitle, date, nullishEmpty(item.href), today, tz, pushed)))))))

\* how long a match of \d{1,2}:\d{2}\s*(?:am|pm), in any case, at the start
\* of text is; 0 if there is none
showTimeLength(text) ==
  LET at(k) == /\ Len(text) >= k + 5
               /\ allDigits(SubSeq(text, 1, k))
               /\ text[k + 1] = ":"
               /\ allDigits(SubSeq(text, k + 2, k + 3))
               /\ toLowerCase(SubSeq(text, skipSpaces(text, k + 4), skipSpaces(text, k + 4) + 1))
                    \in {<<"a", "m">>, <<"p", "m">>}
  IN IF at(2) THEN skipSpaces(text, 6) + 1
     ELSE IF at(1) THEN skipSpaces(text, 5) + 1
     ELSE 0

\* timeWrapper.match(/Show[:\s]+(\d{1,2}:\d{2}\s*(?:am|pm))/i)?.[1]
RECURSIVE showMatch(_)
showMatch(text) ==
  IF Len(text) < 5 THEN NULL
  ELSE LET isSep(c) == c \in {":", " "}
           seps == CHOOSE k \in 0..(Len(text) - 4) :
                     /\ \A h \in 1..k : isSep(text[4 + h])
                     /\ k = Len(text) - 4 \/ ~isSep(text[5 + k])
           rest == SubSeq(text, 5 + seps, Len(text))
       IN IF toLowerCase(SubSeq(text, 1, 4)) = <<"s", "h", "o", "w">> /\ seps > 0 /\ showTimeLength(rest) > 0
          THEN SubSeq(rest, 1, showTimeLength(rest))
          ELSE showMatch(Tail(text))

\* showMatch[1].replace(/\s+/, '').toUpperCase().replace('AM', ' AM')
\*   .replace('PM', ' PM').trim(): the clock, a space, AM or PM
showTime(timeWrapper) ==
  LET inked(c) == c # " "
      raw == showMatch(timeWrapper)
      packed == SelectSeq(raw, inked)
  IN IF raw = NULL THEN NULL
     ELSE SubSeq(packed, 1, Len(packed) - 2) \o <<" ">>
            \o toUpperCase(SubSeq(packed, Len(packed) - 1, Len(packed)))

\* priceRaw.match(/\$[\d.]+/) ? priceRaw.trim() : null
detailPrice(attr) ==
  LET priceRaw == nullishEmpty(attr) IN
  IF \E i \in 1..(Len(priceRaw) - 1) :
       priceRaw[i] = "$" /\ (isDigit(priceRaw[i + 1]) \/ priceRaw[i + 1] = ".")
  THEN trim(priceRaw) ELSE NULL

\* a detail page: the data-price and data-description attributes of
\* #event-data (NULL without the attribute), the text of the time wrapper,
\* what the age pattern captures in the text of the body (NULL if
\* nothing), and the JSON-LD blocks
DetailPage(price, description, times, age) ==
  [price |-> price, description |-> description, times |-> times, age |-> age,
   scripts |-> <<>>]

\* a page without #event-data and without a time wrapper
BlankPage == DetailPage(NULL, NULL, <<>>, NULL)

\* the body of the loop over a batch: the show of the stub and of the
\* result at its position
vanguardShow(stub, result) ==
  normalizeShow(
    IF result.status # "fulfilled"
    THEN [title |-> stub.title, venue |-> VANGUARD_VENUE_NAME, venueUrl |-> BASE_URL,
          date |-> stub.date, time |-> NULL, price |-> NULL, description |-> NULL,
          eventUrl |-> stub.eventUrl, ageLimit |-> NULL,
          tags |-> [isArray |-> TRUE, items |-> <<>>]]
    ELSE [title |-> stub.title, venue |-> VANGUARD_VENUE_NAME, venueUrl |-> BASE_URL,
          date |-> stub.date,
          time |-> showTime(result.value.times),
          price |-> detailPrice(result.value.price),
          description |-> orElse(optTrim(result.value.description), NULL),
          eventUrl |-> stub.eventUrl,
          ageLimit |-> result.value.age,
          tags |-> [isArray |-> TRUE, items |-> <<>>]]).show

\* the shows a batch adds, in the order of the batch
vanguardBatch(batch, htmlResults) ==
  [j \in 1..Len(batch) |-> vanguardShow(batch[j], htmlResults[j])]

\* ---------------------------------------------------------------- diamondballroom.js
SITEMAP_URL == <<"h", "t", "t", "p", "s", ":", "/", "/", "d", "i", "a", "m", "o", "n", "d", "b", "a", "l", "l", "r", "o", "o", "m", ".", "c", "o", "m", "/", "r", "h", "p", "_", "e", "v", "e", "n", "t", "s", "-", "s", "i", "t", "e", "m", "a", "p", ".", "x", "m", "l">>
DIAMOND_VENUE_NAME == <<"D", "i", "a", "m", "o", "n", "d", " ", "B", "a", "l", "l", "r", "o", "o", "m">>
DIAMOND_VENUE_URL == <<"h", "t", "t", "p", "s", ":", "/", "/", "w", "w", "w", ".", "d", "i", "a", "m", "o", "n", "d", "b", "a", "l", "l", "r", "o", "o", "m", ".", "c", "o", "m">>

\* the code unit of a character of a date-time text; the letters of the
\* model's texts are all after the digits
codeUnit(c) ==
  IF c = "-" THEN 45
  ELSE IF isDigit(c) THEN 48 + digitValue(c)
  ELSE IF c = ":" THEN 58
  ELSE 84

\* a < b on strings
RECURSIVE stringLess(_, _)
stringLess(a, b) ==
  IF b = <<>> THEN FALSE
  ELSE IF a = <<>> THEN TRUE
  ELSE IF codeUnit(Head(a)) # codeUnit(Head(b)) THEN codeUnit(Head(a)) < codeUnit(Head(b))
  ELSE stringLess(Tail(a), Tail(b))

\* text.includes(part)
RECURSIVE includes(_, _)
includes(text, part) ==
  IF Len(text) < Len(part) THEN FALSE
  ELSE startsWith(text, part) \/ includes(Tail(text), part)

\* text.slice(0, 10)
slice10(text) == SubSeq(text, 1, min(10, Len(text)))

\* date.toISOString().slice(0, 10): the UTC day of a Date of a process tz
\* minutes east of UTC
utcDay(date, tz) ==
  format(addDays([date EXCEPT !.min = 0], (date.min - tz) \div (24 * 60)))

\* oneYearAgo.setFullYear(oneYearAgo.getFullYear() - 1), then its UTC day
cutoffOf(now, tz) == utcDay(setFullYear(now, now.y - 1), tz)

\* step 1 of scrape: the candidate URLs after the entries of the sitemap
\* from the first on
RECURSIVE diamondCandidates(_, _, _)
diamondCandidates(entries, cutoff, candidateUrls) ==
  IF entries = <<>> THEN candidateUrls
  ELSE LET loc == trim(Head(entries).loc)
           lastmod == slice10(trim(Head(entries).lastmod))
       IN diamondCandidates(Tail(entries), cutoff,
            IF includes(loc, <<"/", "e", "v", "e", "n", "t", "/">>) /\ ~stringLess(lastmod, cutoff)
            THEN Append(candidateUrls, loc)
            ELSE candidateUrls)

\* parseTime: the first T followed by hh:mm
RECURSIVE parseTime(_)
parseTime(isoStr) ==
  IF Len(isoStr) < 6 THEN NULL
  ELSE IF /\ isoStr[1] = "T"
          /\ allDigits(SubSeq(isoStr, 2, 3)) /\ isoStr[4] = ":"
          /\ allDigits(SubSeq(isoStr, 5, 6))
  THEN LET hours == toNumber(SubSeq(isoStr, 2, 3))
           m == SubSeq(isoStr, 5, 6)
           ampm == IF hours >= 12 THEN <<"P", "M">> ELSE <<"A", "M">>
           h == IF hours % 12 = 0 THEN 12 ELSE hours % 12
       IN IF m = <<"0", "0">> THEN decimal(h) \o <<" ">> \o ampm
          ELSE decimal(h) \o <<":">> \o m \o <<" ">> \o ampm
  ELSE parseTime(Tail(isoStr))

\* the price of event.offers; the price of an offer is a number of cents,
\* Missing if the offer has none: parseFloat(event.offers?.price ?? 0),
\* Math.round to dollars
diamondPrice(offers) ==
  LET priceNum == IF ~offers.given \/ offers.price = Missing THEN 0 ELSE offers.price
  IN IF priceNum > 0 THEN <<"$">> \o decimal((priceNum + 50) \div 100) ELSE NULL

\* event.offers?.url || event.url || VENUE_URL
diamondEventUrl(event) ==
  orElse(IF event.offers.given THEN event.offers.url ELSE NULL,
         orElse(event.url, DIAMOND_VENUE_URL))

\* the text of the element <t>name</t>: the entity &amp; is decoded
RECURSIVE decoded(_)
decoded(name) ==
  IF name = <<>> THEN <<>>
  ELSE IF startsWith(name, <<"&", "a", "m", "p", ";">>) THEN <<"&">> \o decoded(SubSeq(name, 6, Len(name)))
  ELSE <<Head(name)>> \o decoded(Tail(name))

\* the loop over the events of a JSON-LD block, from the first on
RECURSIVE diamondEvents(_, _, _)
diamondEvents(events, todayISO, shows) ==
  IF events = <<>> THEN shows
  ELSE LET event == Head(events) IN
       IF \/ event.type # "Event" \/ ~truthy(event.name) \/ ~truthy(event.startDate)
          \/ stringLess(slice10(event.startDate), todayISO)
       THEN diamondEvents(Tail(events), todayISO, shows)
       ELSE diamondEvents(Tail(events), todayISO,
              Append(shows,
                normalizeShow(
                  [title |-> trim(decoded(event.name)),
                   venue |-> DIAMOND_VENUE_NAME,
                   venueUrl |-> DIAMOND_VENUE_URL,
                   date |-> slice10(event.startDate),
                   time |-> parseTime(event.startDate),
                   price |-> diamondPrice(event.offers),
                   description |-> NULL,
                   eventUrl |-> diamondEventUrl(event),
                   ageLimit |-> NULL,
                   tags |-> [isArray |-> TRUE, items |-> <<>>]]).show))

\* the JSON-LD blocks of a page, from the first on; events is the array,
\* the @graph or the single object of a block, and a block that is no
\* JSON is passed over
RECURSIVE diamondScripts(_, _, _)
diamondScripts(scripts, todayISO, shows) ==
  IF scripts = <<>> THEN shows
  ELSE diamondScripts(Tail(scripts), todayISO,
         IF Head(scripts).json THEN diamondEvents(Head(scripts).events, todayISO, shows)
         ELSE shows)

\* the loop over the results of a batch, from the first on: a result that
\* is not fulfilled is passed over
RECURSIVE diamondBatch(_, _, _)
diamondBatch(htmlResults, todayISO, shows) ==
  IF htmlResults = <<>> THEN shows
  ELSE diamondBatch(Tail(htmlResults), todayISO,
         IF Head(htmlResults).status # "fulfilled" THEN shows
         ELSE diamondScripts(Head(htmlResults).value.scripts, todayISO, shows))

\* ---------------------------------------------------------------- the batches of detail requests
\* the most candidates of a long listing
MaxCandidates == 9

\* the page a request of url is answered with; every other URL of the
\* site answers with a page that has none of the elements
pageAt(pages, url) == IF url \in DOMAIN pages THEN pages[url] ELSE BlankPage

\* candidates.slice(i, i + BATCH)
batchOf(s) == SubSeq(s.candidates, s.i + 1, min(s.i + BATCH, Len(s.candidates)))

\* the requests of a batch, just sent
pending(n) == [j \in 1..n |-> "pending"]

\* the URLs batch.map requests: the eventUrl of each stub of the Vanguard
\* adapter, the candidate URLs themselves of the Diamond Ballroom adapter
batchUrls(s) ==
  IF s.adapter = "vanguard" THEN [j \in 1..Len(batchOf(s)) |-> batchOf(s)[j].eventUrl]
  ELSE batchOf(s)

\* Promise.allSettled handing out its results in the order the promises
\* settled in
htmlResultsAsSettled(urls, fetched, order, pages) ==
  [j \in 1..Len(urls) |->
     LET k == IF j <= Len(order) THEN order[j] ELSE j
     IN [status |-> fetched[k], value |-> pageAt(pages, urls[k])]]

\* await Promise.allSettled(batch.map(...)): the result at position j is
\* that of the request of position j, whichever settled first
htmlResults(urls, fetched, order, pages) ==
  [j \in 1..Len(urls) |-> [status |-> fetched[j], value |-> pageAt(pages, urls[j])]]

\* step 1 of scrape, by adapter
candidatesOf(s) ==
  IF s.adapter = "vanguard" THEN vanguardCandidates(s.site.items, s.today, s.tz, <<>>)
  ELSE diamondCandidates(s.site.items, cutoffOf(s.now, s.tz), <<>>)

\* the loop over the results of a batch, by adapter
batchShows(s) ==
  LET settledAs == htmlResults(batchUrls(s), s.fetched, s.order, s.site.pages) IN
  IF s.adapter = "vanguard" THEN vanguardBatch(batchOf(s), settledAs)
  ELSE diamondBatch(settledAs, utcDay(s.today, s.tz), <<>>)

\* a call of scrape() at its start. site is what the venue's site serves:
\* the items of the listing or the entries of the sitemap, the detail page
\* of each URL, and the URLs whose request cannot fail; now and tz are the
\* local time and the zone of the process, today is new Date() after
\* setHours(0, 0, 0, 0). i is the loop's i, fetched the state of each
\* request of the batch, order the positions of the batch in the order
\* they settled in (scrape keeps no such record), delays the pacing delays
\* taken
Run(adapter, site, now, tz) ==
  [adapter |-> adapter, pc |-> "list", site |-> site, now |-> now,
   today |-> [now EXCEPT !.min = 0], tz |-> tz,
   candidates |-> <<>>, i |-> 0, fetched |-> <<>>, order |-> <<>>,
   shows |-> <<>>, delays |-> 0]

\* a scrape that requests the pages of all its candidates at once
ListedAsAllAtOnce ==
  /\ scraper.adapter \in {"vanguard", "diamondballroom"}
  /\ scraper.pc = "list"
  /\ \E candidates \in {candidatesOf(scraper)} :
       scraper' = IF candidates = <<>>
                  THEN [scraper EXCEPT !.pc = "returned"]
                  ELSE [scraper EXCEPT !.pc = "fetching",
                                       !.candidates = candidates,
                                       !.fetched = pending(Len(candidates))]
  /\ UNCHANGED <<mainVars, helper>>

\* fetchHtml resolves with the listing: the candidates are collected and,
\* if there are any, the requests of the first batch are sent
Listed ==
  /\ scraper.adapter \in {"vanguard", "diamondballroom"}
  /\ scraper.pc = "list"
  /\ \E candidates \in {candidatesOf(scraper)} :
       scraper' = IF candidates = <<>>
                  THEN [scraper EXCEPT !.pc = "returned"]
                  ELSE [scraper EXCEPT !.pc = "fetching",
                                       !.candidates = candidates,
                                       !.fetched = pending(min(BATCH, Len(candidates)))]
  /\ UNCHANGED <<mainVars, helper>>

\* fetchHtml rejects: so does scrape
ListFailed ==
  /\ scraper.adapter \in {"vanguard", "diamondballroom"}
  /\ scraper.pc = "list"
  /\ scraper' = [scraper EXCEPT !.pc = "rejected"]
  /\ UNCHANGED <<mainVars, helper>>

\* what the request at position j of the batch can settle as
outcomes(s, j) ==
  IF batchUrls(s)[j] \in s.site.steady
  THEN {"fulfilled"} ELSE {"fulfilled", "rejected"}

\* the request at position j of the batch settles
Settled(j) ==
  /\ scraper.adapter \in {"vanguard", "diamondballroom"}
  /\ scraper.pc = "fetching"
  /\ j \in 1..Len(scraper.fetched)
  /\ scraper.fetched[j] = "pending"
  /\ \E outcome \in outcomes(scraper, j) :
       scraper' = [scraper EXCEPT !.fetched[j] = outcome]
  /\ UNCHANGED <<mainVars, helper>>

\* the same, with the order of settling noted
SettledNoted(j) ==
  /\ scraper.adapter \in {"vanguard", "diamondballroom"}
  /\ scraper.pc = "fetching"
  /\ j \in 1..Len(scraper.fetched)
  /\ scraper.fetched[j] = "pending"
  /\ \E outcome \in outcomes(scraper, j) :
       scraper' = [scraper EXCEPT !.fetched[j] = outcome,
                                  !.order = Append(scraper.order, j)]
  /\ UNCHANGED <<mainVars, helper>>

\* allSettled resolves. Before a further batch the pacing delay starts;
\* after the last batch its results are gone through and scrape returns
Joined ==
  /\ scraper.adapter \in {"vanguard", "diamondballroom"}
  /\ scraper.pc = "fetching"
  /\ \A j \in 1..Len(scraper.fetched) : scraper.fetched[j] # "pending"
  /\ scraper' = IF scraper.i + BATCH < Len(scraper.candidates)
                THEN [scraper EXCEPT !.pc = "delay"]
                ELSE [scraper EXCEPT !.pc = "returned",
                                     !.shows = scraper.shows \o batchShows(scraper)]
  /\ UNCHANGED <<mainVars, helper>>

\* the pacing delay is over: the results of the batch are gone through and
\* the requests of the next batch are sent
Delayed ==
  /\ scraper.adapter \in {"vanguard", "diamondballroom"}
  /\ scraper.pc = "delay"
  /\ scraper' = [scraper EXCEPT
                   !.pc = "fetching",
                   !.shows = scraper.shows \o batchShows(scraper),
                   !.i = scraper.i + BATCH,
                   !.fetched = pending(min(BATCH, Len(scraper.candidates) - (scraper.i + BATCH))),
                   !.order = <<>>,
                   !.delays = scraper.delays + 1]
  /\ UNCHANGED <<mainVars, helper>>

\* a listing item: the text of its title and of its date element, its
\* link (NULL without one), and the day its date text writes (InvalidDate
\* if it writes none)
Item(title, date, href, day) ==
  [title |-> title, date |-> date, href |-> href, day |-> day]

\* the day as the venue writes it: month, day, year
dateLong(day) ==
  monthText(day.m) \o <<" ">> \o decimal(day.d) \o <<",", " ">> \o pad(day.y, 4)

\* the items of a short listing of the day today: yesterday's, today's
\* and tomorrow's show, one sold out and without a link, one cancelled and
\* linked to another site, one without a title, one without a date
ShortItems(today) ==
  { Item(<<"A">>, dateLong(addDays(today, -1)), <<"/", "a">>, addDays(today, -1)),
    Item(<<"A">>, dateLong(today), <<"/", "a">>, today),
    Item(<<" ", "A", " ">>, dateLong(addDays(today, 1)), <<"/", "a">>, addDays(today, 1)),
    Item(<<"S", "O", "L", "D", " ", "O", "U", "T", " ", "|", " ", "B">>, dateLong(today), NULL, today),
    Item(<<"C", "a", "n", "c", "e", "l", "l", "e", "d", " ", "-", " ", "C">>, dateLong(addDays(today, 1)), <<"h", "t", "t", "p", "s", ":", "/", "/", "x", "/", "c">>, addDays(today, 1)),
    Item(<<" ", " ">>, dateLong(addDays(today, 1)), <<"/", "a">>, addDays(today, 1)),
    Item(<<"D">>, <<"T", "B", "A">>, <<"/", "a">>, InvalidDate) }

ShortPages ==
  (BASE_URL \o <<"/", "a">> :> DetailPage(<<" ", "$", "1", "0", ".", "0", "0", " ">>, <<" ", "a", " ", "b", "a", "n", "d", " ">>, <<"D", "o", "o", "r", "s", ":", " ", "7", ":", "0", "0", " ", "p", "m", " ", "/", " ", "S", "h", "o", "w", ":", " ", "8", ":", "0", "0", " ", "p", "m">>, <<"2", "1", "+">>))
    @@ (<<"h", "t", "t", "p", "s", ":", "/", "/", "x", "/", "c">> :> DetailPage(<<"F", "r", "e", "e">>, NULL, <<"S", "h", "o", "w", " ", "9", ":", "3", "0", "P", "M">>, NULL))

\* what the site serves with a short listing
ShortSite(items) == [items |-> items, pages |-> ShortPages, steady |-> {}]

\* item k of a long listing and its detail page; the page of item 3 has
\* none of the elements
LongItem(k) ==
  Item(<<"T">> \o decimal(k), <<"M", "a", "r", "c", "h", " ", "1", ",", " ", "2", "0", "2", "8">>, <<"/", "s", "h", "o", "w", "s", "/">> \o decimal(k), DateAt(2028, 3, 1, 0))

LongPage(k) ==
  IF k = 3 THEN BlankPage
  ELSE DetailPage(<<"$">> \o decimal(10 + k) \o <<".", "0", "0">>, NULL,
                  <<"S", "h", "o", "w", ":", " ">> \o decimal(k) \o <<":", "0", "0", " ", "p", "m">>, <<"A", "l", "l", " ", "A", "g", "e", "s">>)

\* what the site serves with a long listing of n items; steady are the
\* items whose request cannot fail
LongSite(n, steady) ==
  [items |-> [k \in 1..n |-> LongItem(k)],
   pages |-> [url \in {BASE_URL \o LongItem(k).href : k \in 1..n} |->
                LongPage(CHOOSE k \in 1..n : BASE_URL \o LongItem(k).href = url)],
   steady |-> {BASE_URL \o LongItem(k).href : k \in steady}]

\* an entry of the sitemap
Entry(loc, lastmod) == [loc |-> loc, lastmod |-> lastmod]

\* an object of a JSON-LD block: its @type, name, startDate (NULL without
\* the field), offers and url
DiamondEvent(type, name, startDate, offers, url) ==
  [type |-> type, name |-> name, startDate |-> startDate, offers |-> offers, url |-> url]

\* the offers of an event, with the price in cents; NoTicket is an event
\* without offers
Ticket(price, url) == [given |-> TRUE, price |-> price, url |-> url]
NoTicket == [given |-> FALSE, price |-> Missing, url |-> NULL]

\* an event page with its JSON-LD blocks
EventPage(scripts) ==
  [price |-> NULL, description |-> NULL, times |-> <<>>, age |-> NULL, scripts |-> scripts]

Block(events) == [json |-> TRUE, events |-> events]
BrokenBlock == [json |-> FALSE, events |-> <<>>]

\* the entries of a short sitemap read at the local time now: three event
\* pages touched this year, a page that is no event, an event page touched
\* two years ago, and one touched on the local day a year ago
ShortEntries(now) ==
  { Entry(<<"h", "t", "t", "p", "s", ":", "/", "/", "d", ".", "t", "e", "s", "t", "/", "e", "v", "e", "n", "t", "/", "a", "/">>, isoText(now.y, 1, 15) \o <<"T", "1", "0", ":", "0", "0", ":", "0", "0", "+", "0", "0", ":", "0", "0">>),
    Entry(<<" ", "h", "t", "t", "p", "s", ":", "/", "/", "d", ".", "t", "e", "s", "t", "/", "e", "v", "e", "n", "t", "/", "b", "/", " ">>, isoText(now.y, 1, 15) \o <<"T", "1", "0", ":", "0", "0", ":", "0", "0", "+", "0", "0", ":", "0", "0">>),
    Entry(<<"h", "t", "t", "p", "s", ":", "/", "/", "d", ".", "t", "e", "s", "t", "/", "e", "v", "e", "n", "t", "/", "c", "/">>, isoText(now.y, 1, 15)),
    Entry(<<"h", "t", "t", "p", "s", ":", "/", "/", "d", ".", "t", "e", "s", "t", "/", "v", "e", "n", "u", "e", "/">>, isoText(now.y, 1, 15)),
    Entry(<<"h", "t", "t", "p", "s", ":", "/", "/", "d", ".", "t", "e", "s", "t", "/", "e", "v", "e", "n", "t", "/", "o", "l", "d", "/">>, isoText(now.y - 2, 1, 15)),
    Entry(<<"h", "t", "t", "p", "s", ":", "/", "/", "d", ".", "t", "e", "s", "t", "/", "e", "v", "e", "n", "t", "/", "a", "/">>, isoText(now.y - 1, now.m, now.d)) }

\* the event pages of the short sitemap on the local day today
DiamondPages(today) ==
  LET on(k) == format(addDays(today, k)) IN
  (<<"h", "t", "t", "p", "s", ":", "/", "/", "d", ".", "t", "e", "s", "t", "/", "e", "v", "e", "n", "t", "/", "a", "/">> :>
     EventPage(<<Block(<<DiamondEvent("Event", <<"A", " ", "&", "a", "m", "p", ";", " ", "B">>, on(1) \o <<"T", "1", "9", ":", "3", "0", ":", "0", "0", "-", "0", "5", "0", "0">>,
                                      Ticket(2500, <<"h", "t", "t", "p", "s", ":", "/", "/", "e", "t", "i", "x", ".", "t", "e", "s", "t", "/", "a">>),
                                      <<"h", "t", "t", "p", "s", ":", "/", "/", "d", ".", "t", "e", "s", "t", "/", "e", "v", "e", "n", "t", "/", "a", "/">>)>>)>>))
  @@ (<<"h", "t", "t", "p", "s", ":", "/", "/", "d", ".", "t", "e", "s", "t", "/", "e", "v", "e", "n", "t", "/", "b", "/">> :>
     EventPage(<<BrokenBlock,
                 Block(<<DiamondEvent("Place", <<"D", "i", "a", "m", "o", "n", "d">>, NULL, NoTicket, NULL),
                         DiamondEvent("Event", <<"B">>, on(-1) \o <<"T", "2", "0", ":", "0", "0", ":", "0", "0", "-", "0", "5", "0", "0">>, NoTicket, NULL),
                         DiamondEvent("Event", NULL, on(1), NoTicket, NULL),
                         DiamondEvent("Event", <<" ", "C", " ">>, on(0) \o <<"T", "1", "2", ":", "0", "0", ":", "0", "0", "-", "0", "5", "0", "0">>,
                                      Ticket(40, NULL), <<"h", "t", "t", "p", "s", ":", "/", "/", "d", ".", "t", "e", "s", "t", "/", "e", "v", "e", "n", "t", "/", "b", "/">>)>>)>>))
  @@ (<<"h", "t", "t", "p", "s", ":", "/", "/", "d", ".", "t", "e", "s", "t", "/", "e", "v", "e", "n", "t", "/", "c", "/">> :>
     EventPage(<<Block(<<DiamondEvent("Event", <<"D">>, on(1), Ticket(Missing, NULL), NULL)>>)>>))
  @@ (<<"h", "t", "t", "p", "s", ":", "/", "/", "d", ".", "t", "e", "s", "t", "/", "e", "v", "e", "n", "t", "/", "o", "l", "d", "/">> :> EventPage(<<>>))

DiamondShortSite(entries, today) ==
  [items |-> entries, pages |-> DiamondPages(today), steady |-> {}]

\* entry k of a long sitemap and its event page, with one event to come
LongEntry(k) == Entry(<<"h", "t", "t", "p", "s", ":", "/", "/", "d", ".", "t", "e", "s", "t", "/", "e", "v", "e", "n", "t", "/">> \o decimal(k), <<"2", "0", "2", "6", "-", "0", "1", "-", "1", "5", "T", "1", "0", ":", "0", "0", ":", "0", "0", "+", "0", "0", ":", "0", "0">>)

LongEventPage(k) ==
  EventPage(<<Block(<<DiamondEvent("Event", <<"T">> \o decimal(k),
                                   <<"2", "0", "2", "8", "-", "0", "3", "-", "0", "1", "T">> \o pad(10 + k, 2) \o <<":", "3", "0", ":", "0", "0", "-", "0", "5", "0", "0">>,
                                   Ticket(100 * (10 + k), NULL), LongEntry(k).loc)>>)>>)

DiamondLongSite(n, steady) ==
  [items |-> [k \in 1..n |-> LongEntry(k)],
   pages |-> [url \in {LongEntry(k).loc : k \in 1..n} |->
                LongEventPage(CHOOSE k \in 1..n : LongEntry(k).loc = url)],
   steady |-> {LongEntry(k).loc : k \in steady}]

\* the local times of the runs: a morning and a late evening
RunTimes == {DateAt(2026, 2, 27, 6 * 60), DateAt(2028, 3, 1, 23 * 60)}

BatchRuns ==
  {Run("vanguard", LongSite(n, {}), DateAt(2026, 2, 27, 6 * 60), 0) : n \in 0..MaxCandidates}
    \cup UNION {{Run("vanguard", ShortSite(items), now, tz) :
                   items \in SeqUpTo(ShortItems([now EXCEPT !.min = 0]), MaxItems),
                   tz \in TimeZones}
                : now \in RunTimes}
    \cup {Run("diamondballroom", DiamondLongSite(n, {}), DateAt(2026, 2, 27, 6 * 60), 0)
            : n \in 0..MaxCandidates}
    \cup UNION {{Run("diamondballroom", DiamondShortSite(entries, [now EXCEPT !.min = 0]), now, tz) :
                   entries \in SeqUpTo(ShortEntries(now), MaxItems),
                   tz \in TimeZones}
                : now \in RunTimes}

InitBatch ==
  /\ MainIdle
  /\ helper = NoCall
  /\ scraper \in BatchRuns

NextBatch ==
  \/ Listed
  \/ ListFailed
  \/ \E j \in 1..BATCH : Settled(j)
  \/ Joined
  \/ Delayed

BatchSpec == InitBatch /\ [][NextBatch]_vars

\* ---------------------------------------------------------------- the batches, with the order of settling
\* the most candidates of a listing all of whose requests can fail
MaxOrdered == 4

\* long listings of one batch all of whose requests can fail, and one of
\* two batches with the requests of item 2 and of the last item able to
\* fail
OrderRuns ==
  {Run("vanguard", LongSite(n, {}), DateAt(2026, 2, 27, 6 * 60), 0) : n \in 0..MaxOrdered}
    \cup {Run("vanguard", LongSite(BATCH + 1, (1..(BATCH + 1)) \ {2, BATCH + 1}),
              DateAt(2026, 2, 27, 6 * 60), 0)}

InitBatchOrder ==
  /\ MainIdle
  /\ helper = NoCall
  /\ scraper \in OrderRuns

NextBatchOrder ==
  \/ Listed
  \/ ListFailed
  \/ \E j \in 1..BATCH : SettledNoted(j)
  \/ Joined
  \/ Delayed

BatchOrderSpec == InitBatchOrder /\ [][NextBatchOrder]_vars

\* ================================================================ claims
\* DedupKey of the data model: (lowercased-trimmed venue, date-or-empty,
\* lowercased-trimmed title), as a tuple
DedupKeyOf(show) ==
  <<trim(toLowerCase(orEmpty(show.venue))),
    orEmpty(show.date),
    trim(toLowerCase(orEmpty(show.title)))>>

\* the indices of s that hold the first show of their DedupKey
FirstIdx(s) ==
  {i \in 1..Len(s) : \A h \in 1..(i - 1) : DedupKeyOf(s[h]) # DedupKeyOf(s[i])}

\* the index of the first show of s with DedupKey k
FirstOcc(s, k) ==
  CHOOSE i \in 1..Len(s) :
    /\ DedupKeyOf(s[i]) = k
    /\ \A h \in 1..(i - 1) : DedupKeyOf(s[h]) # k

KeysOf(s) == {DedupKeyOf(s[i]) : i \in 1..Len(s)}
Range(s) == {s[i] : i \in 1..Len(s)}

\* s rearranged by the permutation p of its indices
Permuted(s, p) == [i \in 1..Len(s) |-> s[p[i]]]

\* dedup has run on allShows
Deduped == pc = "mkdir"

\* C1: the output of dedup holds at most one show per DedupKey, every
\* surviving show's key occurs in the input, and the survivors stand in the
\* order of the first occurrences of their keys in the input
C1_OnePerKeyInFirstOrder ==
  Deduped =>
    /\ \A i, j \in 1..Len(deduped) :
         i < j => DedupKeyOf(deduped[i]) # DedupKeyOf(deduped[j])
    /\ KeysOf(deduped) \subseteq KeysOf(allShows)
    /\ \A i, j \in 1..Len(deduped) :
         i < j => FirstOcc(allShows, DedupKeyOf(deduped[i]))
                    < FirstOcc(allShows, DedupKeyOf(deduped[j]))

\* dedup dropped S1's respelled duplicate S2 and kept two shows in order
C1_Witness ==
  /\ Deduped
  /\ \E i, j \in 1..Len(allShows) : i < j /\ allShows[i] = S1 /\ allShows[j] = S2
  /\ Len(deduped) = 2
  /\ Len(allShows) = 3

\* C2: of two input shows with equal DedupKey, the one at the first index
\* of that key is in the output with every field as supplied, and it is the
\* only output show of that key: the later one is dropped, nothing of it
\* is merged into the survivor
C2_FirstSeenWinsUnmerged ==
  Deduped =>
    \A i, j \in 1..Len(allShows) :
      (i < j /\ i \in FirstIdx(allShows)
         /\ DedupKeyOf(allShows[i]) = DedupKeyOf(allShows[j])) =>
        LET k == Cardinality({h \in FirstIdx(allShows) : h <= i}) IN
        /\ k <= Len(deduped)
        /\ deduped[k] = allShows[i]
        /\ \A m \in 1..Len(deduped) :
             DedupKeyOf(deduped[m]) = DedupKeyOf(allShows[i]) => m = k

\* S1 (no time, no image) came before S2 (same key, with time and image)
\* and survived without either
C2_Witness ==
  /\ Deduped
  /\ allShows = <<S3, S1, S2>>
  /\ deduped = <<S3, S1>>
  /\ deduped[2].time = NULL /\ S2.time # NULL

\* C3: dedup applied to its own output returns that output
C3_DedupIdempotent ==
  Deduped => dedup(deduped) = deduped

\* the first pass dropped a show and kept two
C3_Witness ==
  /\ Deduped
  /\ Len(allShows) = 3
  /\ Len(deduped) = 2
  /\ dedup(deduped) = deduped

\* C8 as stated: every permutation of the input leaves dedup the same set
\* of surviving shows, equal in every field
C8_SameShowsUnderPermutation ==
  Deduped =>
    \A p \in Permutations(1..Len(allShows)) :
      Range(dedup(Permuted(allShows, p))) = Range(deduped)

\* C8 amended: every permutation of the input leaves dedup the same number
\* of surviving shows and the same set of DedupKeys
C8_SameKeysUnderPermutation ==
  Deduped =>
    \A p \in Permutations(1..Len(allShows)) :
      LET out == dedup(Permuted(allShows, p)) IN
      /\ Len(out) = Len(deduped)
      /\ KeysOf(out) = KeysOf(deduped)

\* an input whose permutations change the survivor: S1 first keeps S1, S2
\* first keeps S2
C8_Witness ==
  /\ Deduped
  /\ allShows = <<S1, S3, S2>>
  /\ deduped = <<S1, S3>>
  /\ dedup(<<S2, S3, S1>>) = <<S2, S3>>

\* ---------------------------------------------------------------- full run
Written == pc = "done" /\ file.kind = "snapshot"
Rejected(i) == results[i].status = "rejected"
Fulfilled(i) == results[i].status = "fulfilled"

\* the shows scraper i returned
Returned(i) == IF results[i].value.defined THEN results[i].value.shows ELSE <<>>

\* a and b are equal in every field but imageUrl
SameButImage(a, b) == [a EXCEPT !.imageUrl = b.imageUrl] = b

\* show r is in the snapshot (with its own or an overriding image)
InSnapshot(r) ==
  \E k \in 1..Len(file.data.shows) : SameButImage(file.data.shows[k], r)

\* the failure message of a rejection: the Error's message, else the
\* thrown value as text
FailureMessage(reason) ==
  IF reason.hasMessage THEN reason.message ELSE reason.text

\* C4: the written snapshot's error list has one entry per rejected
\* scraper, with its registered name and failure message, and none for a
\* fulfilled one; every show a fulfilled scraper returned is in the snapshot
\* unless an earlier show (of an earlier scraper, or earlier in the same
\* array) with the same DedupKey is
C4_FailuresIsolated ==
  Written =>
    LET errs == file.data.scraperErrors IN
    /\ \A i \in 1..NumScrapers :
         LET mine == {k \in 1..Len(errs) : errs[k].scraper = Registry[i]} IN
         /\ Rejected(i) =>
              /\ Cardinality(mine) = 1
              /\ \A k \in mine : errs[k].error = FailureMessage(results[i].reason)
         /\ Fulfilled(i) => mine = {}
    /\ Len(errs) = Cardinality({i \in 1..NumScrapers : Rejected(i)})
    /\ \A i \in 1..NumScrapers : Fulfilled(i) =>
         \A q \in 1..Len(Returned(i)) :
           \/ InSnapshot(Returned(i)[q])
           \/ \E h \in 1..i : Fulfilled(h) /\
                \E g \in 1..Len(Returned(h)) :
                  /\ h < i \/ g < q
                  /\ DedupKeyOf(Returned(h)[g]) = DedupKeyOf(Returned(i)[q])
                  /\ InSnapshot(Returned(h)[g])

\* the first scraper threw, the second returned a show: the snapshot holds
\* that show and one error, named after the first
C4_Witness ==
  /\ Written
  /\ Rejected(1) /\ Fulfilled(2)
  /\ Len(Returned(2)) = 1
  /\ Len(file.data.shows) = 1
  /\ Len(file.data.scraperErrors) = 1
  /\ file.data.scraperErrors[1].scraper = Registry[1]

\* C5: every run ends with the snapshot written, unless mkdir or writeFile
\* fails; main fails at no other place: it is fatal only when every scraper
\* has settled and the output object is assembled
C5_RunWritesSnapshot ==
  /\ <>(pc = "fatal" \/ Written)
  /\ [](pc = "fatal" =>
         /\ \A i \in 1..NumScrapers : results[i].status # "pending"
         /\ output.lastUpdated = "now"
         /\ Len(output.scraperErrors) = Cardinality({i \in 1..NumScrapers : Rejected(i)}))

\* a run with a rejected and a fulfilled scraper has written its snapshot
C5_Witness ==
  /\ Written
  /\ \E i, j \in 1..NumScrapers : Rejected(i) /\ Fulfilled(j)

\* C6: writeFile is called at most once, and neither the call nor a change
\* of the file happens while a scraper's promise is pending
C6_WriteOnceAfterAllSettled ==
  /\ writes <= 1
  /\ (writes > 0 \/ pc \in {"write", "done"} \/ file # PriorFile) =>
       \A i \in 1..NumScrapers : results[i].status # "pending"

\* the snapshot was written once in a run in which a scraper had rejected
C6_Witness ==
  /\ Written
  /\ writes = 1
  /\ \E i \in 1..NumScrapers : Rejected(i)

\* C7: when every scraper has rejected, the assembled output and the
\* written snapshot have no shows and one error entry per scraper, in
\* registry order
AllRejected == \A i \in 1..NumScrapers : Rejected(i)

C7_AllFailStillSnapshot ==
  /\ (AllRejected /\ pc \in {"mkdir", "write", "done"}) =>
       /\ output.shows = <<>>
       /\ Len(output.scraperErrors) = NumScrapers
       /\ \A i \in 1..NumScrapers : output.scraperErrors[i].scraper = Registry[i]
  /\ (AllRejected /\ Written) => file.data = output

\* every scraper rejected and the snapshot is on disk, without shows
C7_Witness ==
  /\ AllRejected
  /\ Written
  /\ file.data.shows = <<>>
  /\ Len(file.data.scraperErrors) = NumScrapers

\* ---------------------------------------------------------------- assembler
Absent(d) == d = NULL \/ d = <<>>

\* ISO dates in calendar order
RECURSIVE DigitsLeq(_, _)
DigitsLeq(a, b) ==
  IF a = <<>> THEN TRUE
  ELSE IF b = <<>> THEN FALSE
  ELSE IF Head(a) = Head(b) THEN DigitsLeq(Tail(a), Tail(b))
  ELSE IF Head(a) = "-" THEN TRUE
  ELSE IF Head(b) = "-" THEN FALSE
  ELSE \E m, n \in 0..9 : /\ Head(a) = ToString(m) /\ Head(b) = ToString(n) /\ m < n

\* the array the sort receives
BeforeSort == [i \in 1..Len(deduped) |-> overrideShow(deduped[i], overrides)]

PosBeforeSort(r) == CHOOSE i \in 1..Len(BeforeSort) : BeforeSort[i] = r

\* C9: the snapshot's shows are the deduplicated, overridden shows, with no
\* dateless show before a dated one, dates non-decreasing, and shows of
\* equal date (or both dateless) in their order from dedup; on the example
\* (X, 2026-03-14, A) twice and a dateless (X, B), two shows, dateless last
C9_SortedStableNullsLast ==
  Written =>
    LET snap == file.data.shows IN
    /\ Len(snap) = Len(BeforeSort)
    /\ Range(snap) = Range(BeforeSort)
    /\ \A i, j \in 1..Len(snap) : i < j =>
         /\ ~(Absent(snap[i].date) /\ ~Absent(snap[j].date))
         /\ (~Absent(snap[i].date) /\ ~Absent(snap[j].date)) =>
              DigitsLeq(snap[i].date, snap[j].date)
         /\ ((Absent(snap[i].date) /\ Absent(snap[j].date))
               \/ snap[i].date = snap[j].date) =>
              PosBeforeSort(snap[i]) < PosBeforeSort(snap[j])
    /\ allShows = <<S1, S1, S3>> =>
         /\ Len(snap) = 2
         /\ Absent(snap[2].date)

\* the sort moved a dateless show behind two dated ones and kept the two
\* shows of 2026-03-14 in dedup's order
C9_Witness ==
  /\ Written
  /\ allShows = <<S3, S5, S1>>
  /\ deduped = <<S3, S5, S1>>
  /\ Len(file.data.shows) = 3
  /\ file.data.shows[1].title = S5.title
  /\ file.data.shows[2].title = S1.title
  /\ Absent(file.data.shows[3].date)

\* C10: applyImageOverrides returns as many shows as it got, in the same
\* order; each is its input show, or its input show with only imageUrl
\* replaced by a URL of the table; the latter exactly for the shows that
\* have a table entry; the shows of the argument are as before the call
C10_OverrideOnlyImage ==
  Deduped =>
    LET in == dedup(allShows)
        call == applyImageOverrides(in, overrides)
    IN /\ Len(call.ret) = Len(in)
       /\ \A i \in 1..Len(in) :
            LET url == lookup(overrides, overrideKey(in[i])) IN
            /\ \/ call.ret[i] = in[i]
               \/ \E k \in DOMAIN overrides :
                    call.ret[i] = [in[i] EXCEPT !.imageUrl = overrides[k]]
            /\ url = NULL => call.ret[i] = in[i]
            /\ url # NULL => call.ret[i].imageUrl = url
       /\ call.arg = in
       /\ deduped = in
       /\ Range(unique) = Range(call.ret)

\* a show with an image of its own got the table's, a show without an entry
\* kept what it had
C10_Witness ==
  /\ Deduped
  /\ deduped = <<S2, S4>>
  /\ unique = <<[S2 EXCEPT !.imageUrl = OvrImg], S4>>
  /\ S2.imageUrl = OwnImg

\* ---------------------------------------------------------------- override key
\* the key text of a show under a separator: lowercased-trimmed venue,
\* date or empty, lowercased-trimmed title
KeyText(show, sep) ==
  LET k == DedupKeyOf(show) IN k[1] \o sep \o k[2] \o sep \o k[3]

\* the show of unique that came from the deduplicated show d
AfterOverride(d) ==
  CHOOSE u \in Range(unique) : DedupKeyOf(u) = DedupKeyOf(d)

\* every deduplicated show is in unique with its image replaced by the
\* table's entry under its key text, and unchanged when there is none
ReplacedExactlyUnder(sep) ==
  /\ Len(unique) = Len(deduped)
  /\ \A i \in 1..Len(deduped) :
       LET d == deduped[i]
           key == KeyText(d, sep)
       IN /\ \E u \in Range(unique) : DedupKeyOf(u) = DedupKeyOf(d)
          /\ key \in DOMAIN overrides =>
               AfterOverride(d) = [d EXCEPT !.imageUrl = overrides[key]]
          /\ key \notin DOMAIN overrides => AfterOverride(d) = d

\* C11 as stated: the image of a deduplicated show is replaced exactly when
\* the table has an entry under venue, date and title joined with a single
\* pipe character
C11_SinglePipeKey ==
  Deduped => ReplacedExactlyUnder(<<"|">>)

\* C11 amended: the image of a deduplicated show is replaced exactly when
\* the table has an entry under lowercased-trimmed venue, date (or empty)
\* and lowercased-trimmed title joined with two pipe characters ("||");
\* the table is applied to dedup's output (one show per DedupKey) and the
\* result is what the sort orders (no dateless show before a dated one)
C11_DoublePipeKey ==
  Deduped =>
    /\ ReplacedExactlyUnder(<<"|", "|">>)
    /\ deduped = dedup(allShows)
    /\ \A i, j \in 1..Len(unique) :
         i < j => ~(Absent(unique[i].date) /\ ~Absent(unique[j].date))

\* the table has "x||2026-03-14||a": dedup dropped S2, S1 got the table's
\* image and moved in front of the dateless S3, which kept what it had
C11_Witness ==
  /\ Deduped
  /\ DOMAIN overrides = {K1}
  /\ allShows = <<S3, S1, S2>>
  /\ deduped = <<S3, S1>>
  /\ unique = <<[S1 EXCEPT !.imageUrl = OvrImg], S3>>

\* ---------------------------------------------------------------- error list
\* the registry index of a scraper name
RegistryIndex(name) == CHOOSE i \in 1..Len(Registry) : Registry[i] = name

\* the error entries name rejected scrapers, with their messages, each
\* once and in registry order; field is the name of the entry's name field
ErrorsInRegistryOrder(errs, field) ==
  /\ \A k \in 1..Len(errs) :
       /\ DOMAIN errs[k] = {field, "error"}
       /\ \E i \in 1..NumScrapers :
            /\ Rejected(i)
            /\ errs[k][field] = Registry[i]
            /\ errs[k].error = FailureMessage(results[i].reason)
  /\ \A k, m \in 1..Len(errs) :
       k < m => RegistryIndex(errs[k][field]) < RegistryIndex(errs[m][field])

\* C12 as stated: every error entry of the written snapshot has exactly the
\* fields source and error, and the entries are in registry order
C12_SourceAndError ==
  Written => ErrorsInRegistryOrder(file.data.scraperErrors, "source")

\* C12 amended: every error entry of the written snapshot has exactly the
\* fields scraper (the rejected scraper's registered name) and error (its
\* failure message), and the entries are in registry order
C12_ScraperAndError ==
  Written => ErrorsInRegistryOrder(file.data.scraperErrors, "scraper")

\* two scrapers failed differently; the snapshot lists both, first first
C12_Witness ==
  /\ Written
  /\ Len(file.data.scraperErrors) = 2
  /\ file.data.scraperErrors[1] = [scraper |-> Registry[1], error |-> "timeout"]
  /\ file.data.scraperErrors[2] = [scraper |-> Registry[2], error |-> "HTTP 500"]

\* ---------------------------------------------------------------- normalizeShow
ShowReturned == helper.fn = "normalizeShow" /\ helper.state = "returned"

\* absent, empty or nothing but spaces
Blank(s) == s = NULL \/ \A i \in 1..Len(s) : s[i] = " "

\* the text s from its first to its last character that is no space
Stripped(s) ==
  LET inked == {i \in 1..Len(s) : s[i] # " "} IN
  IF inked = {} THEN <<>>
  ELSE SubSeq(s, CHOOSE i \in inked : \A j \in inked : i <= j,
                 CHOOSE i \in inked : \A j \in inked : j <= i)

\* C13: title and venue of the show normalizeShow returns are texts with a
\* character other than a space; an absent, empty or blank title (venue) is
\* "Unknown Show" ("Unknown Venue"), any other is the supplied text without
\* the spaces around it; {title: "", venue: "", date: null} gives
\* "Unknown Show", "Unknown Venue" and the date null
C13_TitleVenueNeverEmpty ==
  ShowReturned =>
    LET in == helper.arg
        out == helper.ret.show
    IN /\ ~Blank(out.title)
       /\ ~Blank(out.venue)
       /\ out.title = IF Blank(in.title) THEN UnknownShow ELSE Stripped(in.title)
       /\ out.venue = IF Blank(in.venue) THEN UnknownVenue ELSE Stripped(in.venue)
       /\ (in.title = <<>> /\ in.venue = <<>> /\ in.date = NULL) =>
            /\ out.title = UnknownShow
            /\ out.venue = UnknownVenue
            /\ out.date = NULL

\* a blank title became the sentinel, a venue with a space behind it lost
\* the space
C13_Witness ==
  /\ ShowReturned
  /\ helper.arg.title = <<" ">>
  /\ helper.arg.venue = <<"x", " ">>
  /\ helper.ret.show.title = UnknownShow
  /\ helper.ret.show.venue = <<"x">>

\* the fields of a show as normalizeShow builds it
ShowFields ==
  {"title", "venue", "venueUrl", "date", "time", "price", "description",
   "eventUrl", "ageLimit", "tags"}

\* C14: a call of normalizeShow, on a candidate with any of its fields
\* absent, never throws; it can always return, and what it returns is a show
\* with all of ShowFields
C14_NormalizeShowTotal ==
  helper.fn = "normalizeShow" =>
    /\ helper.state # "threw"
    /\ helper.state = "called" => ENABLED NormalizeShow
    /\ helper.state = "returned" =>
         /\ DOMAIN helper.ret.show = ShowFields
         /\ \A f \in TrimmedFields : helper.ret.show[f] # THROWN

\* normalizeShow({}) returned: sentinels, no tags, everything else absent
C14_Witness ==
  /\ ShowReturned
  /\ \A f \in DOMAIN helper.arg \ {"tags"} : helper.arg[f] = NULL
  /\ helper.arg.tags = [isArray |-> FALSE, items |-> <<>>]
  /\ helper.ret.show.title = UnknownShow
  /\ helper.ret.show.tags = <<>>
  /\ helper.ret.show.time = NULL

\* C15 as stated: venueUrl, date, time, description, eventUrl, ageLimit and
\* imageUrl of the show normalizeShow returns are the supplied values where
\* one was supplied, and absent where none was
C15_OptionalFieldsAsSupplied ==
  ShowReturned =>
    \A f \in {"venueUrl", "date", "time", "description", "eventUrl", "ageLimit", "imageUrl"} :
      LET supplied == helper.arg[f] IN
      IF supplied \in {NULL, <<>>}
      THEN f \in DOMAIN helper.ret.show => helper.ret.show[f] = NULL
      ELSE f \in DOMAIN helper.ret.show /\ helper.ret.show[f] = supplied

\* a candidate with an imageUrl came back as a show without that field
C15_Witness ==
  /\ ShowReturned
  /\ helper.arg.imageUrl = Img
  /\ "imageUrl" \notin DOMAIN helper.ret.show
  /\ helper.arg.time = NULL
  /\ helper.arg.description = NULL
  /\ helper.arg.ageLimit = NULL

\* ---------------------------------------------------------------- normalizePrice
PriceReturned == helper.fn = "normalizePrice" /\ helper.state = "returned"

NormalizedPrices ==
  { <<"F", "r", "e", "e">>,
    <<"$", "1", "5">>,
    <<"$", "1", "0", EnDash, "$", "2", "0">> }

\* C16: normalizePrice returns "Free", "$15" and "$10-$20" (with an en
\* dash) as it got them
C16_IdempotentOnNormalized ==
  (PriceReturned /\ helper.arg \in NormalizedPrices) => helper.ret = helper.arg

\* the en dash range went through normalizePrice unchanged
C16_Witness ==
  /\ PriceReturned
  /\ helper.arg = <<"$", "1", "0", EnDash, "$", "2", "0">>
  /\ helper.ret = helper.arg

\* the rules of price normalization, each on its own
IsFreeText(raw) == toLowerCase(Stripped(raw)) \in FreeWords

EndCentsStripped(t) ==
  IF Len(t) >= 3 /\ SubSeq(t, Len(t) - 2, Len(t)) = <<".", "0", "0">>
  THEN SubSeq(t, 1, Len(t) - 3)
  ELSE t

\* where a ".00" stands that no letter, digit or underscore follows
CentsAt(t) ==
  {i \in 1..(Len(t) - 2) :
     /\ SubSeq(t, i, i + 2) = <<".", "0", "0">>
     /\ (i + 3 > Len(t) \/ ~isWord(t[i + 3]))}

NotCents(t) == {i \in 1..Len(t) : \A c \in CentsAt(t) : i < c \/ i > c + 2}

EveryCentsStripped(t) ==
  [k \in 1..Cardinality(NotCents(t)) |->
     t[CHOOSE i \in NotCents(t) : Cardinality({j \in NotCents(t) : j <= i}) = k]]

HyphensAsDashes(t) == [i \in 1..Len(t) |-> IF t[i] = "-" THEN EnDash ELSE t[i]]

DollarLed(t) == IF t # <<>> /\ isDigit(t[1]) THEN <<"$">> \o t ELSE t

C18_AbsentPriceStaysAbsent ==
  ShowReturned =>
    LET raw == helper.arg.price IN
    /\ raw \in {NULL, <<>>} =>
         /\ helper.ret.priceCalls = <<>>
         /\ helper.ret.show.price = NULL
         /\ normalizePrice(raw) = NULL
    /\ raw \notin {NULL, <<>>} =>
         /\ helper.ret.priceCalls = <<raw>>
         /\ helper.ret.show.price = normalizePrice(raw)

\* a candidate with the empty text as price came back with the price null
C18_Witness ==
  /\ ShowReturned
  /\ helper.arg.price = <<>>
  /\ helper.ret.show.price = NULL
  /\ helper.ret.priceCalls = <<>>

\* ---------------------------------------------------------------- parseDate
DateReturned == helper.fn = "parseDate" /\ helper.state = "returned"

\* the input writes a day of the calendar
OnCalendar(in) ==
  /\ in.m \in 1..12
  /\ in.d >= 1
  /\ in.d <= (IF in.m = 2 THEN (IF in.y % 4 = 0 THEN 29 ELSE 28)
              ELSE IF in.m \in {4, 6, 9, 11} THEN 30 ELSE 31)

\* C19 as stated: parseDate returns the YYYY-MM-DD an ISO input begins
\* with, for a date alone and for a date with a time and a UTC offset,
\* whatever the time, the offset and the zone of the process
C19_IsoDateUnchanged ==
  (DateReturned /\ helper.arg.input.kind \in {"iso", "isoZone"}
     /\ OnCalendar(helper.arg.input)) =>
    helper.ret = SubSeq(helper.arg.input.text, 1, 10)

\* in a process on UTC, 2026-02-26T20:00:00-05:00 came back as 2026-02-27
C19_Witness ==
  /\ DateReturned
  /\ helper.arg.tz = 0
  /\ helper.arg.input.text
       = isoText(2026, 2, 26) \o <<"T">> \o clockText(20 * 60)
           \o <<"-", "0", "5", ":", "0", "0">>
  /\ helper.ret = isoText(2026, 2, 27)

\* C20 as stated: a date parseDate resolves from a text without a year is
\* never before today, whatever today and the reference year; the day of
\* the reference year that is today is kept, one before today is returned
\* as the same month and day of the following year
C20_YearlessNeverBeforeToday ==
  (DateReturned /\ helper.arg.input.kind \in YearlessKinds /\ helper.ret # NULL) =>
    LET in == helper.arg.input
        today == helper.arg.today
        ref == helper.arg.referenceYear
        todayText == isoText(today.y, today.m, today.d)
        written == isoText(ref, in.m, in.d)
    IN /\ DigitsLeq(todayText, helper.ret)
       /\ written = todayText => helper.ret = todayText
       /\ (written # todayText /\ DigitsLeq(written, todayText)) =>
            helper.ret = isoText(ref + 1, in.m, in.d)

\* parseDate("February 26", 2026) on 2028-03-01 returned 2027-02-26
C20_Witness ==
  /\ DateReturned
  /\ helper.arg.input.kind = "long"
  /\ helper.arg.given
  /\ helper.arg.referenceYear = 2026
  /\ helper.arg.today = DateAt(2028, 3, 1, 0)
  /\ helper.arg.input.m = 2 /\ helper.arg.input.d = 26
  /\ helper.ret = isoText(2027, 2, 26)

\* the formats of DATE_FORMATS a cleaned text matches, and the date the
\* i-th gives on the day today
MatchingFormats(cleaned, ref) ==
  {i \in 1..Len(DATE_FORMATS) : parse(cleaned, DATE_FORMATS[i], ref) # InvalidDate}

DateOfFormat(cleaned, i, ref, today) ==
  LET d == parse(cleaned, DATE_FORMATS[i], ref)
      yearless == \A k \in 1..Len(DATE_FORMATS[i]) : DATE_FORMATS[i][k] # "yyyy"
  IN IF yearless /\ dateLess(d, today)
     THEN (IF d.m = 2 /\ d.d = 29 THEN isoText(d.y + 1, 3, 1)
           ELSE isoText(d.y + 1, d.m, d.d))
     ELSE isoText(d.y, d.m, d.d)

First(S) == CHOOSE i \in S : \A j \in S : i <= j

\* the text begins with YYYY-MM-DD
IsoShaped(t) ==
  /\ Len(t) >= 10
  /\ \A i \in {1, 2, 3, 4, 6, 7, 9, 10} : t[i] \in {"0", "1", "2", "3", "4", "5", "6", "7", "8", "9"}
  /\ t[5] = "-" /\ t[8] = "-"

DateCallDone == helper.fn = "parseDate" /\ helper.state # "called"

\* C21 as stated: parseDate does not throw; it returns null for an input
\* that is absent, empty, ISO-shaped with a day that is none of the
\* calendar, or neither ISO-shaped nor matched by a format of the list; for
\* every other input it returns a date, that of the first format of the
\* list that matches if one does
C21_AbsentOrFirstFormat ==
  DateCallDone =>
    LET in == helper.arg.input
        cleaned == IF in.text = NULL THEN <<>> ELSE collapseSpaces(trim(in.text))
        matching == MatchingFormats(cleaned, helper.arg.referenceYear)
        absent == \/ in.text \in {NULL, <<>>}
                  \/ IsoShaped(cleaned) /\ ~OnCalendar(in)
                  \/ ~IsoShaped(cleaned) /\ matching = {}
    IN /\ helper.state = "returned"
       /\ absent => helper.ret = NULL
       /\ ~absent => /\ helper.ret # NULL
                     /\ matching # {} =>
                          helper.ret = DateOfFormat(cleaned, First(matching),
                                                    helper.arg.referenceYear, helper.arg.today)

\* C21: parseDate does not throw.  It returns null exactly for an input
\* that is absent or empty, that is ISO-shaped and is not as a whole a date
\* of the calendar or such a date followed by "T" and a time, or that is
\* not ISO-shaped and matches no format of the list; an input that is not
\* ISO-shaped and matches a format gives the date of the first format of
\* the list that matches
C21_AbsentOrIsoOrFirstFormat ==
  DateCallDone =>
    LET in == helper.arg.input
        cleaned == IF in.text = NULL THEN <<>> ELSE collapseSpaces(trim(in.text))
        matching == MatchingFormats(cleaned, helper.arg.referenceYear)
        wholeIso == in.kind \in {"iso", "isoLocal", "isoZone"} /\ OnCalendar(in)
        absent == \/ in.text \in {NULL, <<>>}
                  \/ IsoShaped(cleaned) /\ ~wholeIso
                  \/ ~IsoShaped(cleaned) /\ matching = {}
    IN /\ helper.state = "returned"
       /\ absent <=> helper.ret = NULL
       /\ (~IsoShaped(cleaned) /\ matching # {}) =>
            helper.ret = DateOfFormat(cleaned, First(matching),
                                      helper.arg.referenceYear, helper.arg.today)

\* parseDate("2026-02-26x") returned null, and parseDate("February 30") did
C21_Witness ==
  /\ DateCallDone
  /\ helper.ret = NULL
  /\ \/ helper.arg.input.text = isoText(2026, 2, 26) \o <<"x">>
     \/ helper.arg.input.kind = "long" /\ helper.arg.input.d = 30

\* ---------------------------------------------------------------- persistence
\* C23: a run that ended fatally has called writeFile at most once and has
\* left no snapshot of this run on disk, whole or reduced; if writeFile was
\* never called (mkdir failed) the file is the prior snapshot; and the file
\* holds a snapshot of this run only when the run is done, and then it is
\* the whole output
C23_PersistFailureFatal ==
  /\ pc = "fatal" =>
       /\ writes <= 1
       /\ file.kind # "snapshot"
       /\ writes = 0 => file = PriorFile
  /\ file.kind = "snapshot" => (pc = "done" /\ file.data = output)
  /\ pc \in {"mkdir", "write"} => file = PriorFile

\* mkdir failed in a run that had a show to write: the run is fatal and the
\* prior snapshot is on disk
C23_Witness ==
  /\ pc = "fatal"
  /\ writes = 0
  /\ output.shows # <<>>
  /\ file = PriorFile

\* ---------------------------------------------------------------- normalizePrice, twice
\* C29 as stated: a price normalizePrice returned goes through
\* normalizePrice unchanged
C29_IdempotentOnEveryInput ==
  (PriceReturned /\ helper.ret # NULL) => normalizePrice(helper.ret) = helper.ret

\* normalizePrice("0.00") returned "$0", which normalizePrice turns into
\* "Free"
C29_Witness ==
  /\ PriceReturned
  /\ helper.arg = <<"0", ".", "0", "0">>
  /\ helper.ret = <<"$", "0">>
  /\ normalizePrice(helper.ret) = <<"F", "r", "e", "e">>

\* ---------------------------------------------------------------- dedup, key strings
DedupReturned == helper.fn = "dedup" /\ helper.state = "returned"

\* C28 as stated: dedup drops a show only for an earlier show whose
\* DedupKey is the same in all three components, so that two shows of the
\* input whose keys differ in a component both have their key among the
\* survivors
C28_DuplicatesOnlyByTuple ==
  DedupReturned =>
    \A i \in 1..Len(helper.arg) :
      \E k \in 1..Len(helper.ret) : DedupKeyOf(helper.ret[k]) = DedupKeyOf(helper.arg[i])

\* of a show of venue "x||" and title "y" and one of venue "x" and title
\* "||y", dedup returned the first only
C28_Witness ==
  /\ DedupReturned
  /\ Len(helper.arg) = 2
  /\ helper.arg[1].venue = <<"x", "|", "|">> /\ helper.arg[1].title = <<"y">>
  /\ helper.arg[2].venue = <<"x">> /\ helper.arg[2].title = <<"|", "|", "y">>
  /\ helper.ret = <<helper.arg[1]>>

\* ---------------------------------------------------------------- settling order
\* what the scrapers from i on returned, one array after the other in
\* registry order
RECURSIVE ReturnedFrom(_)
ReturnedFrom(i) ==
  IF i > NumScrapers THEN <<>>
  ELSE (IF Fulfilled(i) THEN Returned(i) ELSE <<>>) \o ReturnedFrom(i + 1)

\* C27: once main has gone through the results, allShows is what the
\* scrapers returned, concatenated in registry order, the error list names
\* the rejected scrapers in registry order, and the output is made of both,
\* whatever the order in which the scrapers settled
C27_SettlingOrderIrrelevant ==
  pc \in {"mkdir", "write", "done", "fatal"} =>
    /\ allShows = ReturnedFrom(1)
    /\ ErrorsInRegistryOrder(errors, "scraper")
    /\ Len(errors) = Cardinality({i \in 1..NumScrapers : Rejected(i)})
    /\ output.scraperErrors = errors
    /\ output.shows = sort(applyImageOverrides(dedup(ReturnedFrom(1)), overrides).ret)

\* the second scraper settled before the first, both with a show, and
\* allShows has the show of the first in front
C27_Witness ==
  /\ pc = "mkdir"
  /\ settled[1] = 2 /\ settled[2] = 1
  /\ Fulfilled(1) /\ Fulfilled(2)
  /\ Len(Returned(1)) = 1 /\ Len(Returned(2)) = 1
  /\ Returned(1) # Returned(2)
  /\ allShows = Returned(1) \o Returned(2)

\* ---------------------------------------------------------------- beercity.js
BeerCityReturned == scraper.adapter = "beercity" /\ scraper.pc = "returned"

\* the lowercased, trimmed spelling of a title
TitleKey(title) == toLowerCase(Stripped(title))

\* the cards of the page with the title of record r
CardsOf(r) ==
  {k \in 1..Len(scraper.page.cards) :
     TitleKey(scraper.page.cards[k].headline) = TitleKey(r.title)}

\* C26: the time of every record Beer City returns is absent or the time
\* of a card of the page whose lowercased, trimmed title is that of the
\* record; the time of a record without such a card is absent
C26_TimeNeverFabricated ==
  BeerCityReturned =>
    \A i \in 1..Len(scraper.shows) :
      LET r == scraper.shows[i] IN
      /\ r.time = NULL \/ \E k \in CardsOf(r) : r.time = cardTime(Stripped(scraper.page.cards[k].times))
      /\ CardsOf(r) = {} => r.time = NULL

\* the page had a card "A" with "Start 8:00pm" and events "A" and "D": the
\* show A has the time 8:00 PM, the show D has none
C26_Witness ==
  /\ BeerCityReturned
  /\ Len(scraper.shows) = 2
  /\ Len(scraper.page.cards) = 1
  /\ scraper.shows[1].title = <<"A">> /\ scraper.shows[1].time = <<"8", ":", "0", "0", " ", "P", "M">>
  /\ scraper.shows[2].title = <<"D">> /\ scraper.shows[2].time = NULL

\* ---------------------------------------------------------------- C30
\* the items of a listing that have a title and write a day that is
\* today's or a later one
KeptItems(items, today) ==
  LET kept(item) == /\ truthy(trim(item.title))
                    /\ item.day # InvalidDate
                    /\ ~dateLess(item.day, today)
  IN SelectSeq(items, kept)

\* the Vanguard call has gone through the listing
VanguardListed ==
  scraper.adapter = "vanguard" /\ scraper.pc \in {"fetching", "delay", "returned"}

\* C30: in every time zone of the process, the candidates of the Vanguard
\* adapter, the items that get a detail request, are exactly the listing
\* items dated today (the local calendar day) or later, in their order
C30_KeepsTodayAndLater ==
  VanguardListed =>
    LET kept == KeptItems(scraper.site.items, scraper.today) IN
    /\ Len(scraper.candidates) = Len(kept)
    /\ \A k \in 1..Len(kept) : scraper.candidates[k].date = format(kept[k].day)

\* a process west of UTC has gone through a listing with an item dated
\* today, and the item is no candidate
C30_Witness ==
  /\ VanguardListed
  /\ scraper.tz < 0
  /\ \E k \in 1..Len(scraper.site.items) :
       /\ truthy(trim(scraper.site.items[k].title))
       /\ scraper.site.items[k].day = scraper.today
  /\ \A k \in 1..Len(scraper.candidates) :
       scraper.candidates[k].date # format(scraper.today)

\* ---------------------------------------------------------------- C24
\* what the detail page of item g of a long listing says: the show time
\* and the price as the adapter emits them
TimeOfItem(g) == IF g = 3 THEN NULL ELSE decimal(g) \o <<":", "0", "0", " ", "P", "M">>
PriceOfItem(g) == IF g = 3 THEN NULL ELSE <<"$">> \o decimal(10 + g)

\* the show is that of item g of a long listing, with the time and price
\* of g's own detail page if its request was fulfilled and with neither
\* if it was rejected
ShowOfItem(show, g, outcome) ==
  /\ show.title = <<"T">> \o decimal(g)
  /\ show.date = <<"2", "0", "2", "8", "-", "0", "3", "-", "0", "1">>
  /\ show.eventUrl = BASE_URL \o <<"/", "s", "h", "o", "w", "s", "/">> \o decimal(g)
  /\ show.time = IF outcome = "fulfilled" THEN TimeOfItem(g) ELSE NULL
  /\ show.price = IF outcome = "fulfilled" THEN PriceOfItem(g) ELSE NULL

\* a step of the Vanguard call that goes through the results of a batch
\* adds one show for each stub of the batch, in the order of the listing,
\* each with the outcome of its own request
AttachedByPosition ==
  (scraper.adapter = "vanguard" /\ scraper'.shows # scraper.shows) =>
    /\ Len(scraper'.shows) = scraper.i + Len(scraper.fetched)
    /\ SubSeq(scraper'.shows, 1, scraper.i) = scraper.shows
    /\ \A j \in 1..Len(scraper.fetched) :
         ShowOfItem(scraper'.shows[scraper.i + j], scraper.i + j, scraper.fetched[j])

\* C24: in whatever order the requests of a batch settle, every emitted
\* record carries its stub's own title, date and eventUrl with the time
\* and price of that stub's detail page, and the records are in the order
\* of the listing
C24_AttachedByPosition == [][AttachedByPosition]_vars

\* a batch of four requests that settled last to first, all fulfilled,
\* has been gone through
C24_Witness ==
  /\ scraper.adapter = "vanguard"
  /\ scraper.pc = "returned"
  /\ scraper.order = <<4, 3, 2, 1>>
  /\ \A j \in 1..4 : scraper.fetched[j] = "fulfilled"
  /\ Len(scraper.shows) = 4

\* ---------------------------------------------------------------- C25
\* the requests of a call that are in flight
InFlight(s) == {j \in 1..Len(s.fetched) : s.fetched[j] = "pending"}

\* the batches that n candidates make
BatchesOf(n) == (n + 7) \div 8

\* at most 8 requests are in flight and every batch before the last has
\* 8; the pacing delay runs with no request in flight and only when a
\* further batch is to come; a call that has returned has taken one delay
\* between every two batches and none after the last
Paced(s) ==
  /\ Cardinality(InFlight(s)) <= 8
  /\ (s.pc = "fetching" /\ s.i + 8 < Len(s.candidates)) => Len(s.fetched) = 8
  /\ s.pc = "delay" => (InFlight(s) = {} /\ s.i + 8 < Len(s.candidates))
  /\ s.pc = "returned" =>
       s.delays = IF s.candidates = <<>> THEN 0 ELSE BatchesOf(Len(s.candidates)) - 1

\* requests are sent only at the start of the loop and, with every request
\* of the batch before settled, at the end of a pacing delay
SentInTurn ==
  InFlight(scraper') \ InFlight(scraper) # {} =>
    \/ scraper.pc = "list"
    \/ scraper.pc = "delay" /\ InFlight(scraper) = {} /\ scraper'.delays = scraper.delays + 1

C22_FailedItemsEmitted ==
  (scraper.adapter \in {"vanguard", "diamondballroom"} /\ scraper.pc = "returned") =>
    /\ Len(scraper.shows) = Len(scraper.candidates)
    /\ \A j \in 1..Len(scraper.fetched) :
         scraper.fetched[j] = "rejected" =>
           /\ truthy(scraper.shows[scraper.i + j].title)
           /\ truthy(scraper.shows[scraper.i + j].date)
           /\ scraper.shows[scraper.i + j].time = NULL
           /\ scraper.shows[scraper.i + j].price = NULL

\* the Diamond Ballroom adapter has returned from a sitemap of two event
\* pages, each with one event to come: the request of the second page
\* failed and only the event of the first is emitted
C22_Witness ==
  /\ scraper.adapter = "diamondballroom"
  /\ scraper.pc = "returned"
  /\ scraper.candidates = <<LongEntry(1).loc, LongEntry(2).loc>>
  /\ scraper.fetched = <<"fulfilled", "rejected">>
  /\ Len(scraper.shows) = 1
  /\ scraper.shows[1].title = <<"T", "1">>

====
